---- MODULE Spec2Model ----
(***************************************************************************)
(* A model of the cruxhash library: the dispatcher `hash`, the per-kind    *)
(* hash functions and the two mixers `wang` and `murmur3`.                 *)
(*                                                                         *)
(* ECMAScript numbers that take part in bit operations are integers; one   *)
(* is written here as a pair <<hi, lo>> standing for hi * 2^16 + lo, with  *)
(* lo in 0..65535 and hi any integer (negative for a negative number,      *)
(* above 65535 for a number beyond 32 bits).  The bit operators reduce     *)
(* their operands with ToInt32 / ToUint32 exactly as the language does.    *)
(***************************************************************************)
EXTENDS Integers, Sequences, FiniteSets, TLC

(***************************************************************************)
(* ECMAScript integer arithmetic                                           *)
(*                                                                         *)
(* The operators of the language are functions here: like the language,    *)
(* a function application computes its operands first, once each.          *)
(***************************************************************************)

\* The integers the bit operators are applied to, as pairs.
Integer == Int \X Int

\* The statement `const x = val;` followed by `body`, which reads x: val is
\* computed when the statement runs, once, whatever body does with it.
Bind(val, body(_)) == CHOOSE r \in {body(x) : x \in {val}} : TRUE

\* ToUint32 of the language: the number modulo 2^32, in [0, 2^32).
ToUint32[x \in Integer] == <<x[1] % 65536, x[2]>>

\* ToInt32 of the language: the number modulo 2^32, in [-2^31, 2^31).
ToInt32[x \in Integer] ==
  LET h == x[1] % 65536
  IN  <<IF h >= 32768 THEN h - 65536 ELSE h, x[2]>>

\* Bit i of the natural number n.
BitAt(n, i) == (n \div (2 ^ i)) % 2

\* Tables of the three bit operations on 4-bit digits.
Xor4 ==
  [a \in 0..15 |-> [b \in 0..15 |->
     (IF BitAt(a, 0) # BitAt(b, 0) THEN 1 ELSE 0)
   + (IF BitAt(a, 1) # BitAt(b, 1) THEN 2 ELSE 0)
   + (IF BitAt(a, 2) # BitAt(b, 2) THEN 4 ELSE 0)
   + (IF BitAt(a, 3) # BitAt(b, 3) THEN 8 ELSE 0)]]

Or4 ==
  [a \in 0..15 |-> [b \in 0..15 |->
     (IF BitAt(a, 0) + BitAt(b, 0) > 0 THEN 1 ELSE 0)
   + (IF BitAt(a, 1) + BitAt(b, 1) > 0 THEN 2 ELSE 0)
   + (IF BitAt(a, 2) + BitAt(b, 2) > 0 THEN 4 ELSE 0)
   + (IF BitAt(a, 3) + BitAt(b, 3) > 0 THEN 8 ELSE 0)]]

And4 ==
  [a \in 0..15 |-> [b \in 0..15 |->
     (IF BitAt(a, 0) + BitAt(b, 0) = 2 THEN 1 ELSE 0)
   + (IF BitAt(a, 1) + BitAt(b, 1) = 2 THEN 2 ELSE 0)
   + (IF BitAt(a, 2) + BitAt(b, 2) = 2 THEN 4 ELSE 0)
   + (IF BitAt(a, 3) + BitAt(b, 3) = 2 THEN 8 ELSE 0)]]

\* A 4-bit table applied digit by digit to two 16-bit halves.
Op16(T, a, b) ==
    T[a % 16][b % 16]
  + 16 * T[(a \div 16) % 16][(b \div 16) % 16]
  + 256 * T[(a \div 256) % 16][(b \div 256) % 16]
  + 4096 * T[a \div 4096][b \div 4096]

\* A 4-bit table applied to two integers reduced to 32 bits: a signed int32.
Op32(T, a, b) ==
  ToInt32[<<Op16(T, ToUint32[a][1], ToUint32[b][1]),
            Op16(T, ToUint32[a][2], ToUint32[b][2])>>]

\* a ^ b, a | b, a & b.
BitXor[a \in Integer, b \in Integer] == Op32(Xor4, a, b)
BitOr[a \in Integer, b \in Integer] == Op32(Or4, a, b)
BitAnd[a \in Integer, b \in Integer] == Op32(And4, a, b)

\* a << n for 0 <= n < 32: a signed int32.
ShiftLeft[a \in Integer, n \in 0..31] ==
  LET x == ToUint32[a]
  IN  IF n = 0 THEN ToInt32[x]
      ELSE IF n < 16
      THEN ToInt32[<<(x[1] % (2 ^ (16 - n))) * (2 ^ n) + (x[2] \div (2 ^ (16 - n))),
                     (x[2] % (2 ^ (16 - n))) * (2 ^ n)>>]
      ELSE ToInt32[<<(x[2] % (2 ^ (32 - n))) * (2 ^ (n - 16)), 0>>]

\* a >>> n for 0 <= n < 32: an unsigned int32.
ShiftRightLogical[a \in Integer, n \in 0..31] ==
  LET x == ToUint32[a]
  IN  IF n < 16
      THEN <<x[1] \div (2 ^ n),
             (x[1] % (2 ^ n)) * (2 ^ (16 - n)) + (x[2] \div (2 ^ n))>>
      ELSE <<0, x[1] \div (2 ^ (n - 16))>>

\* a >> n for 0 <= n < 32: a signed int32, the sign bit shifted in.
ShiftRight[a \in Integer, n \in 0..31] ==
  LET x == ToInt32[a]
  IN  IF n < 16
      THEN <<x[1] \div (2 ^ n),
             (x[1] % (2 ^ n)) * (2 ^ (16 - n)) + (x[2] \div (2 ^ n))>>
      ELSE <<(x[1] \div (2 ^ (n - 16))) \div 65536,
             (x[1] \div (2 ^ (n - 16))) % 65536>>

\* ~a: the signed int32 with every bit of ToInt32(a) flipped.
BitNot[a \in Integer] ==
  LET x == ToInt32[a]
  IN  <<0 - x[1] - 1, 65535 - x[2]>>

\* a + b on numbers: exact, not reduced to 32 bits.
Plus[a \in Integer, b \in Integer] ==
  <<a[1] + b[1] + ((a[2] + b[2]) \div 65536), (a[2] + b[2]) % 65536>>

\* a - b on numbers: exact, not reduced to 32 bits.
Minus[a \in Integer, b \in Integer] ==
  <<a[1] - b[1] - (IF a[2] < b[2] THEN 1 ELSE 0), (a[2] - b[2] + 65536) % 65536>>

\* Math.imul(a, b): the low 32 bits of the product, as a signed int32.
Math_imul[a \in Integer, b \in Integer] ==
  LET x == ToUint32[a]
      y == ToUint32[b]
      x0 == x[2] % 256
      x1 == x[2] \div 256
      x2 == x[1] % 256
      x3 == x[1] \div 256
      y0 == y[2] % 256
      y1 == y[2] \div 256
      y2 == y[1] % 256
      y3 == y[1] \div 256
      c0 == x0 * y0
      c1 == x0 * y1 + x1 * y0 + (c0 \div 256)
      c2 == x0 * y2 + x1 * y1 + x2 * y0 + (c1 \div 256)
      c3 == x0 * y3 + x1 * y2 + x2 * y1 + x3 * y0 + (c2 \div 256)
  IN  ToInt32[<<(c3 % 256) * 256 + (c2 % 256), (c1 % 256) * 256 + (c0 % 256)>>]

\* A small natural number as a pair.
Num(n) == <<n \div 65536, n % 65536>>

(***************************************************************************)
(* The mixers                                                              *)
(***************************************************************************)

\* wang with `int << 2` in place of `int << 3`.
wang_ShiftLeft2(int, seed) ==
  Bind(BitXor[int, seed], LAMBDA i1 :
  Bind(BitXor[BitXor[i1, Num(61)], ShiftRightLogical[i1, 16]], LAMBDA i2 :
  Bind(Plus[i2, ShiftLeft[i2, 2]], LAMBDA i3 :
  Bind(BitXor[i3, ShiftRightLogical[i3, 4]], LAMBDA i4 :
  Bind(Math_imul[i4, <<\H27d4, \Heb2d>>], LAMBDA i5 :
  Bind(BitXor[i5, ShiftRightLogical[i5, 15]], LAMBDA i6 :
  ShiftRightLogical[i6, 0]))))))

\* wang multiplying by the even number 0x27d4eb2c.
wang_EvenMultiplier(int, seed) ==
  Bind(BitXor[int, seed], LAMBDA i1 :
  Bind(BitXor[BitXor[i1, Num(61)], ShiftRightLogical[i1, 16]], LAMBDA i2 :
  Bind(Plus[i2, ShiftLeft[i2, 3]], LAMBDA i3 :
  Bind(BitXor[i3, ShiftRightLogical[i3, 4]], LAMBDA i4 :
  Bind(Math_imul[i4, <<\H27d4, \Heb2c>>], LAMBDA i5 :
  Bind(BitXor[i5, ShiftRightLogical[i5, 15]], LAMBDA i6 :
  ShiftRightLogical[i6, 0]))))))

\* function wang(int, seed): Thomas Wang's 32-bit shift and multiply mixer.
wang(int, seed) ==
  Bind(BitXor[int, seed], LAMBDA i1 :
  Bind(BitXor[BitXor[i1, Num(61)], ShiftRightLogical[i1, 16]], LAMBDA i2 :
  Bind(Plus[i2, ShiftLeft[i2, 3]], LAMBDA i3 :
  Bind(BitXor[i3, ShiftRightLogical[i3, 4]], LAMBDA i4 :
  Bind(Math_imul[i4, <<\H27d4, \Heb2d>>], LAMBDA i5 :
  Bind(BitXor[i5, ShiftRightLogical[i5, 15]], LAMBDA i6 :
  ShiftRightLogical[i6, 0]))))))

\* view.getUint32(i): the four bytes read big endian, as without the
\* littleEndian argument.
getUint32_BigEndian(view, i) ==
  <<view[i + 1] * 256 + view[i + 2], view[i + 3] * 256 + view[i + 4]>>

\* view.getUint32(i, true): four bytes at 0-based offset i, little endian.
getUint32(view, i) ==
  <<view[i + 4] * 256 + view[i + 3], view[i + 2] * 256 + view[i + 1]>>

\* view.getUint8(i): the byte at 0-based offset i.
getUint8(view, i) == <<0, view[i + 1]>>

\* The k1 scramble shared by the body and the tail of murmur3.
MixK1(k) ==
  Bind(Math_imul[k, <<\Hcc9e, \H2d51>>], LAMBDA k1 :
  Math_imul[BitOr[ShiftLeft[k1, 15], ShiftRightLogical[k1, 17]],
            <<\H1b87, \H3593>>])

\* The `while (i < byteLength)` loop of murmur3: one 4-byte block per turn.
RECURSIVE Murmur3Body(_, _, _, _)
Murmur3Body(view, i, byteLength, h1) ==
  IF i < byteLength
  THEN Bind(BitXor[h1, MixK1(getUint32(view, i))], LAMBDA h2 :
       Bind(BitOr[ShiftLeft[h2, 13], ShiftRightLogical[h2, 19]], LAMBDA h3 :
       Bind(Plus[Math_imul[h3, Num(5)], <<\He654, \H6b64>>], LAMBDA h4 :
       Murmur3Body(view, i + 4, byteLength, h4))))
  ELSE h1

\* The `switch (remainder)` of murmur3, with its fall-through cases.
Murmur3Tail(view, i, remainder, h1) ==
  LET k0 == <<0, 0>>
      ka == IF remainder = 3
            THEN BitXor[k0, ShiftLeft[getUint8(view, i + 2), 16]] ELSE k0
      kb == IF remainder >= 2
            THEN BitXor[ka, ShiftLeft[getUint8(view, i + 1), 8]] ELSE ka
      kc == BitXor[kb, getUint8(view, i)]
  IN  IF remainder \in {1, 2, 3} THEN BitXor[h1, MixK1(kc)] ELSE h1

\* murmur3 without the XOR of the byte length in its finalization.
murmur3_NoLength(buffer, seed) ==
  Bind(buffer, LAMBDA view :
  Bind(Len(view) % 4, LAMBDA remainder :
  Bind(Len(view) - remainder, LAMBDA byteLength :
  Bind(Murmur3Body(view, 0, byteLength, seed), LAMBDA hb :
  Bind(Murmur3Tail(view, byteLength, remainder, hb), LAMBDA f0 :
  Bind(BitXor[f0, ShiftRightLogical[f0, 16]], LAMBDA f1 :
  Bind(Math_imul[f1, <<\H85eb, \Hca6b>>], LAMBDA f2 :
  Bind(BitXor[f2, ShiftRightLogical[f2, 13]], LAMBDA f3 :
  Bind(Math_imul[f3, <<\Hc2b2, \Hae35>>], LAMBDA f4 :
  Bind(BitXor[f4, ShiftRightLogical[f4, 16]], LAMBDA f5 :
  ShiftRightLogical[f5, 0]))))))))))

\* function murmur3(buffer, seed): MurmurHash3 x86_32 of a byte sequence.
murmur3(buffer, seed) ==
  Bind(buffer, LAMBDA view :
  Bind(Len(view) % 4, LAMBDA remainder :
  Bind(Len(view) - remainder, LAMBDA byteLength :
  Bind(Murmur3Body(view, 0, byteLength, seed), LAMBDA hb :
  Bind(Murmur3Tail(view, byteLength, remainder, hb), LAMBDA ht :
  Bind(BitXor[ht, BitAnd[Num(byteLength + remainder), <<65535, 65535>>]],
       LAMBDA f0 :
  Bind(BitXor[f0, ShiftRightLogical[f0, 16]], LAMBDA f1 :
  Bind(Math_imul[f1, <<\H85eb, \Hca6b>>], LAMBDA f2 :
  Bind(BitXor[f2, ShiftRightLogical[f2, 13]], LAMBDA f3 :
  Bind(Math_imul[f3, <<\Hc2b2, \Hae35>>], LAMBDA f4 :
  Bind(BitXor[f4, ShiftRightLogical[f4, 16]], LAMBDA f5 :
  ShiftRightLogical[f5, 0])))))))))))

(***************************************************************************)
(* Runtime values                                                          *)
(*                                                                         *)
(* A value is a record tagged by k.  A string is its sequence of UTF-16    *)
(* code units.  A finite number is (-1)^neg * m / 2^q with m a number pair *)
(* and q = 0 or m odd, so that -0 and fractions are told apart.  An object *)
(* is a reference into the heap.                                           *)
(***************************************************************************)

Undefined == [k |-> "undefined"]
Null == [k |-> "null"]
Bool(b) == [k |-> "boolean", b |-> b]
Finite(neg, m, q) == [k |-> "number", cls |-> "finite", neg |-> neg, m |-> m, q |-> q]
IntNum(n) == Finite(n < 0, Num(IF n < 0 THEN 0 - n ELSE n), 0)
NegZero == Finite(TRUE, <<0, 0>>, 0)
NaN == [k |-> "number", cls |-> "NaN", neg |-> FALSE, m |-> <<0, 0>>, q |-> 0]
Infinity == [k |-> "number", cls |-> "Infinity", neg |-> FALSE, m |-> <<0, 0>>, q |-> 0]
NegInfinity == [k |-> "number", cls |-> "Infinity", neg |-> TRUE, m |-> <<0, 0>>, q |-> 0]
Str(s) == [k |-> "string", s |-> s]
BigInt(neg, mag) == [k |-> "bigint", neg |-> neg, mag |-> mag]
Sym(description) == [k |-> "symbol", description |-> description]
Fun(source) == [k |-> "function", source |-> source]
Ref(id) == [k |-> "object", ref |-> id]

\* The typeof operator.
typeof(value) == IF value.k = "null" THEN "object" ELSE value.k

\* Number.isInteger(value).
Number_isInteger(value) == value.cls = "finite" /\ value.q = 0

\* value === 0: true of +0 and of -0.
IsZero(value) == value.cls = "finite" /\ value.m = <<0, 0>>

\* floor(m / 2^q) of a number pair, for 0 <= q <= 16.
FloorShift(m, q) ==
  <<m[1] \div (2 ^ q), (m[1] % (2 ^ q)) * (2 ^ (16 - q)) + (m[2] \div (2 ^ q))>>

\* value < 0xffffffff, the comparison of hashNumber.
LessThan0xffffffff(value) ==
  IF value.cls = "NaN" THEN FALSE
  ELSE IF value.cls = "Infinity" THEN value.neg
  ELSE IF value.neg THEN TRUE
  ELSE LET f == FloorShift(value.m, value.q)
       IN  f[1] < 65535 \/ (f[1] = 65535 /\ f[2] < 65535)

\* The integer a number contributes to a bit operation before ToInt32:
\* truncated toward zero, and 0 for NaN and the infinities.
ToIntegerOrZero(value) ==
  IF value.cls # "finite" THEN <<0, 0>>
  ELSE LET f == FloorShift(value.m, value.q)
       IN  IF value.neg
           THEN <<0 - f[1] - (IF f[2] > 0 THEN 1 ELSE 0), (65536 - f[2]) % 65536>>
           ELSE f

\* n as w bits, most significant first.
BitsOf(n, w) == [i \in 1..w |-> BitAt(n, w - i)]

\* The byte whose bits are bits[j+1..j+8], most significant first.
ByteAt(bits, j) ==
    128 * bits[j + 1] + 64 * bits[j + 2] + 32 * bits[j + 3] + 16 * bits[j + 4]
  + 8 * bits[j + 5] + 4 * bits[j + 6] + 2 * bits[j + 7] + bits[j + 8]

\* The 64 bits of the IEEE-754 double of a number, sign bit first.
Float64Bits(value) ==
  LET sign == <<IF value.neg THEN 1 ELSE 0>>
      zeros(n) == [i \in 1..n |-> 0]
  IN  IF value.cls = "NaN" THEN <<0>> \o BitsOf(2047, 11) \o <<1>> \o zeros(51)
      ELSE IF value.cls = "Infinity" THEN sign \o BitsOf(2047, 11) \o zeros(52)
      ELSE IF value.m = <<0, 0>> THEN sign \o zeros(63)
      ELSE Bind(BitsOf(value.m[1], 31) \o BitsOf(value.m[2], 16), LAMBDA mbits :
           Bind(CHOOSE i \in 1..47 :
                  mbits[i] = 1 /\ \A j \in 1..(i - 1) : mbits[j] = 0, LAMBDA first :
           LET exponent == (47 - first) - value.q
               fraction == SubSeq(mbits, first + 1, 47)
           IN  sign \o BitsOf(exponent + 1023, 11) \o fraction
                    \o zeros(52 - Len(fraction))))

\* view.setFloat64(0, value, true): the 8 bytes, little endian.
setFloat64(value) ==
  Bind(Float64Bits(value), LAMBDA bits :
  [i \in 1..8 |-> ByteAt(bits, 8 * (8 - i))] \o <<>>)

(***************************************************************************)
(* Text: String.prototype.normalize('NFD') and TextEncoder.encode          *)
(***************************************************************************)

\* The canonical decomposition mapping of the Unicode Character Database,
\* for the precomposed characters of the model's alphabet.
DecompositionMapping(c) ==
  CASE c = \H00C5 -> <<\H0041, \H030A>>
    [] c = \H00E9 -> <<\H0065, \H0301>>
    [] c = \H00EA -> <<\H0065, \H0302>>
    [] c = \H00F1 -> <<\H006E, \H0303>>
    [] c = \H1EBF -> <<\H00EA, \H0301>>
    [] c = \H212B -> <<\H00C5>>
    [] OTHER -> <<c>>

\* The full (recursively applied) canonical decomposition of one character.
RECURSIVE FullDecomposition(_)
FullDecomposition(c) ==
  LET d == DecompositionMapping(c)
  IN  IF d = <<c>> THEN d
      ELSE IF Len(d) = 1 THEN FullDecomposition(d[1])
      ELSE FullDecomposition(d[1]) \o FullDecomposition(d[2])

\* Canonical_Combining_Class of the Unicode Character Database.
CombiningClass(c) ==
  IF c \in {\H0301, \H0302, \H0303, \H0307, \H030A} THEN 230
  ELSE IF c = \H0323 THEN 220
  ELSE 0

RECURSIVE DecomposeAll(_)
DecomposeAll(str) ==
  IF str = <<>> THEN <<>>
  ELSE FullDecomposition(Head(str)) \o DecomposeAll(Tail(str))

\* The canonical ordering algorithm: a combining mark moves left past the
\* marks of a higher combining class, never past a starter.
RECURSIVE InsertMark(_, _)
InsertMark(done, c) ==
  IF /\ done # <<>>
     /\ CombiningClass(c) > 0
     /\ CombiningClass(done[Len(done)]) > CombiningClass(c)
  THEN InsertMark(SubSeq(done, 1, Len(done) - 1), c) \o <<done[Len(done)]>>
  ELSE done \o <<c>>

RECURSIVE CanonicalOrder(_, _)
CanonicalOrder(done, rest) ==
  IF rest = <<>> THEN done
  ELSE Bind(InsertMark(done, Head(rest)), LAMBDA placed :
       CanonicalOrder(placed, Tail(rest)))

\* value.normalize('NFD').
NFD(str) ==
  Bind(DecomposeAll(str), LAMBDA decomposed : CanonicalOrder(<<>>, decomposed))

\* The UTF-8 bytes of one code point.
Utf8(cp) ==
  IF cp < 128 THEN <<cp>>
  ELSE IF cp < 2048 THEN <<192 + (cp \div 64), 128 + (cp % 64)>>
  ELSE IF cp < 65536
  THEN <<224 + (cp \div 4096), 128 + ((cp \div 64) % 64), 128 + (cp % 64)>>
  ELSE <<240 + (cp \div 262144), 128 + ((cp \div 4096) % 64),
         128 + ((cp \div 64) % 64), 128 + (cp % 64)>>

IsHighSurrogate(u) == u >= \HD800 /\ u <= \HDBFF
IsLowSurrogate(u) == u >= \HDC00 /\ u <= \HDFFF

\* encode(str) of the module's TextEncoder: UTF-8 of the code units, a
\* surrogate pair as one code point, a lone surrogate as U+FFFD.
RECURSIVE encode(_)
encode(str) ==
  IF str = <<>> THEN <<>>
  ELSE IF /\ IsHighSurrogate(str[1])
          /\ Len(str) >= 2
          /\ IsLowSurrogate(str[2])
  THEN Utf8(65536 + (str[1] - \HD800) * 1024 + (str[2] - \HDC00))
         \o encode(SubSeq(str, 3, Len(str)))
  ELSE IF IsHighSurrogate(str[1]) \/ IsLowSurrogate(str[1])
  THEN Utf8(\HFFFD) \o encode(Tail(str))
  ELSE Utf8(str[1]) \o encode(Tail(str))

\* The digit characters of radix 36: 0-9 then a-z.
Digit36(d) == IF d < 10 THEN 48 + d ELSE 97 + (d - 10)

RECURSIVE Digits36(_)
Digits36(n) ==
  IF n < 36 THEN <<Digit36(n)>>
  ELSE Digits36(n \div 36) \o <<Digit36(n % 36)>>

\* value.toString(36) of a bigint.
BigInt_toString36(value) ==
  IF value.neg /\ value.mag # 0 THEN <<45>> \o Digits36(value.mag)
  ELSE Digits36(value.mag)

\* value.toString() of a symbol: "Symbol(" description ")".
Symbol_toString(value) ==
  <<83, 121, 109, 98, 111, 108, 40>> \o value.description \o <<41>>

\* value.toString() of a function: its source text.
Function_toString(value) == value.source

(***************************************************************************)
(* The hash functions                                                      *)
(***************************************************************************)

FALSE_KEY == <<\H4210, \H8420>>
TRUE_KEY == <<\H4210, \H8421>>
NULL_KEY == <<\H4210, \H8422>>
UNDEFINED_KEY == <<\H4210, \H8423>>
UNKNOWN_KEY == <<\H4210, \H8424>>

\* The default seed of an earlier variant of the library: the FNV offset
\* basis.
DefaultSeed_OffsetBasis == <<\H811c, \H9dc5>>

\* The default value of the seed parameter of every exported function:
\* `seed = 0`.
DefaultSeed == <<0, 0>>

\* The number of nested calls the engine's call stack holds.
MaxStack == 12

\* The outcome of a call that ran out of call stack: the engine throws a
\* RangeError, which no function of the library catches.
RangeError == <<>>

\* hashBoolean returning the XOR itself, without the final `>>> 0`: a
\* signed int32.
hashBoolean_Signed(value, seed) ==
  IF value.b THEN BitXor[TRUE_KEY, seed] ELSE BitXor[FALSE_KEY, seed]

\* hashBoolean with one key in both branches.
hashBoolean_OneKey(value, seed) == ShiftRightLogical[BitXor[FALSE_KEY, seed], 0]

\* export function hashBoolean(value, seed).
hashBoolean(value, seed) ==
  IF value.b
  THEN ShiftRightLogical[BitXor[TRUE_KEY, seed], 0]
  ELSE ShiftRightLogical[BitXor[FALSE_KEY, seed], 0]

\* hashNumber serializing every number, the integers too, as a double.
hashNumberRun_AlwaysDouble(value, seed) ==
  [mixer |-> "murmur3", ret |-> murmur3(setFloat64(value), seed)]

\* hashNumber without the Number.isInteger test: whatever compares below
\* 0xffffffff goes to wang.
hashNumberRun_NoIntegerTest(value, seed) ==
  IF LessThan0xffffffff(value)
  THEN [mixer |-> "wang", ret |-> wang(ToIntegerOrZero(value), seed)]
  ELSE [mixer |-> "murmur3", ret |-> murmur3(setFloat64(value), seed)]

\* hashNumber calling the mixers without the seed: wang takes its default
\* seed, murmur3 starts from 0.
hashNumberRun_SeedDropped(value, seed) ==
  IF Number_isInteger(value) /\ LessThan0xffffffff(value)
  THEN [mixer |-> "wang", ret |-> wang(ToIntegerOrZero(value), DefaultSeed)]
  ELSE [mixer |-> "murmur3", ret |-> murmur3(setFloat64(value), DefaultSeed)]

\* export function hashNumber(value, seed), with the mixer it went through.
hashNumberRun(value, seed) ==
  IF Number_isInteger(value) /\ LessThan0xffffffff(value)
  THEN [mixer |-> "wang",
        ret |-> IF IsZero(value)
                THEN wang(<<0, 0>>, seed)
                ELSE wang(ToIntegerOrZero(value), seed)]
  ELSE [mixer |-> "murmur3", ret |-> murmur3(setFloat64(value), seed)]

hashNumber(value, seed) == hashNumberRun(value, seed).ret

\* hashString encoding the string as given, without normalize('NFD').
hashString_NotNormalized(value, seed) == murmur3(encode(value.s), seed)

\* export function hashString(value, seed).
hashString(value, seed) ==
  Bind(NFD(value.s), LAMBDA normalized :
  Bind(encode(normalized), LAMBDA encoded :
  murmur3(encoded, seed)))

\* export function hashBigint(value, seed).
hashBigint(value, seed) == murmur3(encode(BigInt_toString36(value)), seed)

\* export function hashSymbol(value, seed).
hashSymbol(value, seed) == murmur3(encode(Symbol_toString(value)), seed)

\* export function hashFunction(value, seed).
hashFunction(value, seed) == murmur3(encode(Function_toString(value)), seed)

\* export function hashBytes(value, seed): value is the buffer's bytes.
hashBytes(value, seed) == murmur3(value, seed)

\* getSeed starting from the FNV offset basis 0x811c9dc5 instead of 0.
getSeed_OffsetBasis(str) == hashString(str, <<\H811c, \H9dc5>>)

\* export const getSeed = (str) => hashString(str, 0).
getSeed(str) == hashString(str, <<0, 0>>)

\* The bytes of a Uint32Array's buffer: 4 bytes per element, in the byte
\* order of the platform (little endian).
RECURSIVE Uint32Buffer(_)
Uint32Buffer(hashes) ==
  IF hashes = <<>> THEN <<>>
  ELSE LET h == Head(hashes)
       IN  <<h[2] % 256, h[2] \div 256, h[1] % 256, h[1] \div 256>>
             \o Uint32Buffer(Tail(hashes))

\* a < b on unsigned 32-bit numbers.
Less(a, b) == a[1] < b[1] \/ (a[1] = b[1] /\ a[2] < b[2])

\* %TypedArray%.prototype.sort() without comparator: ascending numeric.
RECURSIVE Uint32Array_sort(_)
Uint32Array_sort(hashes) ==
  IF hashes = <<>> THEN <<>>
  ELSE Bind(CHOOSE i \in 1..Len(hashes) :
              \A j \in 1..Len(hashes) :
                ~Less(hashes[j], hashes[i]) /\ (hashes[j] = hashes[i] => i <= j),
            LAMBDA least :
       Bind(SubSeq(hashes, 1, least - 1) \o SubSeq(hashes, least + 1, Len(hashes)),
            LAMBDA others :
       <<hashes[least]>> \o Uint32Array_sort(others)))

\* Uint32Array.from(value, mapfn): a new array holding mapfn of each element
\* the iterable yields, in iteration order; mapped is i |-> mapfn(value[i]).
Uint32Array_from(mapped) == mapped \o <<>>

\* An exception thrown by the mapping function leaves Uint32Array.from.
Threw(hashes) == \E i \in 1..Len(hashes) : hashes[i] = RangeError

\* Object.entries(value) of an object without iterator: its own enumerable
\* properties in property order, each a fresh [key, value] array.
Object_entries(o) == o.items

RECURSIVE hash(_, _, _, _)
RECURSIVE hashObject(_, _, _, _)
RECURSIVE hashObjectRun(_, _, _, _)
RECURSIVE hashSequence(_, _, _, _)
RECURSIVE hashValues(_, _, _, _)
RECURSIVE hashEntries(_, _, _, _)

\* hash delegating without the seed: the per-kind function takes its
\* default seed.
hash_SeedNotPassed(value, seed, mem, stack) ==
  IF stack = 0 THEN RangeError
  ELSE CASE typeof(value) = "undefined" ->
              ShiftRightLogical[BitXor[UNDEFINED_KEY, seed], 0]
         [] typeof(value) = "boolean" -> hashBoolean(value, DefaultSeed)
         [] typeof(value) = "number" -> hashNumber(value, DefaultSeed)
         [] typeof(value) = "string" -> hashString(value, DefaultSeed)
         [] typeof(value) = "symbol" -> hashSymbol(value, DefaultSeed)
         [] typeof(value) = "function" -> hashFunction(value, DefaultSeed)
         [] typeof(value) = "object" -> hashObject(value, DefaultSeed, mem, stack - 1)
         [] typeof(value) = "bigint" -> hashBigint(value, DefaultSeed)
         [] OTHER -> ShiftRightLogical[BitXor[seed, UNKNOWN_KEY], 0]

\* export function hash(value, seed).  mem is the heap the value lives in,
\* stack the number of calls the call stack still holds.
hash(value, seed, mem, stack) ==
  IF stack = 0 THEN RangeError
  ELSE CASE typeof(value) = "undefined" ->
              ShiftRightLogical[BitXor[UNDEFINED_KEY, seed], 0]
         [] typeof(value) = "boolean" -> hashBoolean(value, seed)
         [] typeof(value) = "number" -> hashNumber(value, seed)
         [] typeof(value) = "string" -> hashString(value, seed)
         [] typeof(value) = "symbol" -> hashSymbol(value, seed)
         [] typeof(value) = "function" -> hashFunction(value, seed)
         [] typeof(value) = "object" -> hashObject(value, seed, mem, stack - 1)
         [] typeof(value) = "bigint" -> hashBigint(value, seed)
         [] OTHER -> ShiftRightLogical[BitXor[seed, UNKNOWN_KEY], 0]

\* hashObject leaving the seed as it is, whatever the constructor.
FoldedSeed_None(o, seed) == seed

\* The seed after the constructor's name was folded into it: `'constructor'
\* in value && typeof value.constructor === 'function'`.
FoldedSeed(o, seed) ==
  IF o.ctor.isFunction THEN murmur3(encode(o.ctor.name), seed) ELSE seed

\* hashObject testing valueOf before hashCode.
hashObjectRun_ValueOfFirst(value, seed, mem, stack) ==
  IF stack = 0 THEN [calls |-> <<>>, ret |-> RangeError]
  ELSE IF value = Null
  THEN [calls |-> <<>>, ret |-> ShiftRightLogical[BitXor[NULL_KEY, seed], 0]]
  ELSE Bind(mem[value.ref], LAMBDA o :
       Bind(FoldedSeed(o, seed), LAMBDA seed1 :
       IF o.valueOf.overridden
       THEN [calls |-> <<"valueOf">>,
             ret |-> hash(o.valueOf.returns, seed1, mem, stack - 1)]
       ELSE IF o.hashCode.isFunction
       THEN [calls |-> <<"hashCode">>,
             ret |-> hash(o.hashCode.returns, seed1, mem, stack - 1)]
       ELSE IF o.shape = "ArrayBuffer"
       THEN [calls |-> <<"bytes">>, ret |-> hashBytes(o.items, seed1)]
       ELSE IF o.shape = "View"
       THEN [calls |-> <<"buffer">>, ret |-> hashBytes(mem[o.buffer].items, seed1)]
       ELSE IF o.shape \in {"Set", "Map", "Iterable"}
       THEN [calls |-> <<"iterator">>,
             ret |-> IF o.shape = "Set"
                     THEN hashValues(o.items, seed1, mem, stack - 1)
                     ELSE IF o.shape = "Map"
                     THEN hashEntries(o.items, seed1, mem, stack - 1)
                     ELSE hashSequence(o.items, seed1, mem, stack - 1)]
       ELSE [calls |-> <<"entries">>,
             ret |-> hashEntries(Object_entries(o), seed1, mem, stack - 1)]))

\* hashObject hashing the result of hashCode with the seed it was called
\* with, not with the folded seed.
hashObjectRun_CallerSeed(value, seed, mem, stack) ==
  IF stack = 0 THEN [calls |-> <<>>, ret |-> RangeError]
  ELSE IF value = Null
  THEN [calls |-> <<>>, ret |-> ShiftRightLogical[BitXor[NULL_KEY, seed], 0]]
  ELSE Bind(mem[value.ref], LAMBDA o :
       Bind(FoldedSeed(o, seed), LAMBDA seed1 :
       IF o.hashCode.isFunction
       THEN [calls |-> <<"hashCode">>,
             ret |-> hash(o.hashCode.returns, seed, mem, stack - 1)]
       ELSE IF o.valueOf.overridden
       THEN [calls |-> <<"valueOf">>,
             ret |-> hash(o.valueOf.returns, seed1, mem, stack - 1)]
       ELSE IF o.shape = "ArrayBuffer"
       THEN [calls |-> <<"bytes">>, ret |-> hashBytes(o.items, seed1)]
       ELSE IF o.shape = "View"
       THEN [calls |-> <<"buffer">>, ret |-> hashBytes(mem[o.buffer].items, seed1)]
       ELSE IF o.shape \in {"Set", "Map", "Iterable"}
       THEN [calls |-> <<"iterator">>,
             ret |-> IF o.shape = "Set"
                     THEN hashValues(o.items, seed1, mem, stack - 1)
                     ELSE IF o.shape = "Map"
                     THEN hashEntries(o.items, seed1, mem, stack - 1)
                     ELSE hashSequence(o.items, seed1, mem, stack - 1)]
       ELSE [calls |-> <<"entries">>,
             ret |-> hashEntries(Object_entries(o), seed1, mem, stack - 1)]))

\* export function hashObject(value, seed), with the operations it performed
\* on the object: the method it called (hashCode, valueOf), or what it read
\* (the bytes, the buffer of a view, the iterator, Object.entries).
hashObjectRun(value, seed, mem, stack) ==
  IF stack = 0 THEN [calls |-> <<>>, ret |-> RangeError]
  ELSE IF value = Null
  THEN [calls |-> <<>>, ret |-> ShiftRightLogical[BitXor[NULL_KEY, seed], 0]]
  ELSE Bind(mem[value.ref], LAMBDA o :
       Bind(FoldedSeed(o, seed), LAMBDA seed1 :
       IF o.hashCode.isFunction
       THEN [calls |-> <<"hashCode">>,
             ret |-> hash(o.hashCode.returns, seed1, mem, stack - 1)]
       ELSE IF o.valueOf.overridden
       THEN [calls |-> <<"valueOf">>,
             ret |-> hash(o.valueOf.returns, seed1, mem, stack - 1)]
       ELSE IF o.shape = "ArrayBuffer"
       THEN [calls |-> <<"bytes">>, ret |-> hashBytes(o.items, seed1)]
       ELSE IF o.shape = "View"
       THEN [calls |-> <<"buffer">>, ret |-> hashBytes(mem[o.buffer].items, seed1)]
       ELSE IF o.shape \in {"Set", "Map", "Iterable"}
       THEN [calls |-> <<"iterator">>,
             ret |-> IF o.shape = "Set"
                     THEN hashValues(o.items, seed1, mem, stack - 1)
                     ELSE IF o.shape = "Map"
                     THEN hashEntries(o.items, seed1, mem, stack - 1)
                     ELSE hashSequence(o.items, seed1, mem, stack - 1)]
       ELSE [calls |-> <<"entries">>,
             ret |-> hashEntries(Object_entries(o), seed1, mem, stack - 1)]))

hashObject(value, seed, mem, stack) == hashObjectRun(value, seed, mem, stack).ret

\* hashSequence sorting the hashes of the elements before mixing them, as
\* hashValues does.
hashSequence_Sorted(value, seed, mem, stack) ==
  hashValues(value, seed, mem, stack)

\* export function hashSequence(value, seed): value is the sequence of the
\* elements the iterable yields.
hashSequence(value, seed, mem, stack) ==
  IF stack = 0 THEN RangeError
  ELSE Bind(Uint32Array_from(
              [i \in 1..Len(value) |-> hash(value[i], seed, mem, stack - 1)]),
            LAMBDA hashes :
       IF Threw(hashes) THEN RangeError
       ELSE murmur3(Uint32Buffer(hashes), seed))

\* hashValues without the sort() of the hashes.
hashValues_Unsorted(value, seed, mem, stack) ==
  hashSequence(value, seed, mem, stack)

\* export function hashValues(value, seed).
hashValues(value, seed, mem, stack) ==
  IF stack = 0 THEN RangeError
  ELSE Bind(Uint32Array_from(
              [i \in 1..Len(value) |-> hash(value[i], seed, mem, stack - 1)]),
            LAMBDA hashes :
       IF Threw(hashes) THEN RangeError
       ELSE murmur3(Uint32Buffer(Uint32Array_sort(hashes)), seed))

\* hashEntries without the sort() of the hashes.
hashEntries_Unsorted(value, seed, mem, stack) ==
  IF stack = 0 THEN RangeError
  ELSE Bind(Uint32Array_from(
              [i \in 1..Len(value) |-> hashSequence(value[i], seed, mem, stack - 1)]),
            LAMBDA hashes :
       IF Threw(hashes) THEN RangeError
       ELSE murmur3(Uint32Buffer(hashes), seed))

\* export function hashEntries(value, seed): value is the sequence of the
\* entries, each the sequence of the elements that entry yields.
hashEntries(value, seed, mem, stack) ==
  IF stack = 0 THEN RangeError
  ELSE Bind(Uint32Array_from(
              [i \in 1..Len(value) |-> hashSequence(value[i], seed, mem, stack - 1)]),
            LAMBDA hashes :
       IF Threw(hashes) THEN RangeError
       ELSE murmur3(Uint32Buffer(Uint32Array_sort(hashes)), seed))

(***************************************************************************)
(* src/src/index.ts: the variant whose integer mixer is the 6-shift hash   *)
(***************************************************************************)

\* function wang(input, seed) of src/src/index.ts.
Src_wang(input, seed) ==
  Bind(BitXor[input, seed], LAMBDA i1 :
  Bind(Plus[i1, BitNot[ShiftLeft[i1, 15]]], LAMBDA i2 :
  Bind(BitXor[i2, ShiftRight[i2, 10]], LAMBDA i3 :
  Bind(Plus[i3, ShiftLeft[i3, 3]], LAMBDA i4 :
  Bind(BitXor[i4, ShiftRight[i4, 6]], LAMBDA i5 :
  Bind(Plus[i5, BitNot[ShiftLeft[i5, 11]]], LAMBDA i6 :
  Bind(BitXor[i6, ShiftRight[i6, 16]], LAMBDA i7 :
  ShiftRightLogical[i7, 0])))))))

\* export function hashNumber(value, seed) of src/src/index.ts, with the
\* mixer it went through.
Src_hashNumberRun(value, seed) ==
  IF Number_isInteger(value) /\ LessThan0xffffffff(value)
  THEN [mixer |-> "wang",
        ret |-> IF IsZero(value)
                THEN Src_wang(<<0, 0>>, seed)
                ELSE Src_wang(ToIntegerOrZero(value), seed)]
  ELSE [mixer |-> "murmur3", ret |-> murmur3(setFloat64(value), seed)]

(***************************************************************************)
(* src/unnamed/part_000, lines 1-200: the variant whose seed is a pair of  *)
(* numbers [seed[0], seed[1]].  A seed is modelled as <<s0, s1>>: s0 is    *)
(* the code's seed[0] and s1 its seed[1].                                  *)
(***************************************************************************)

\* const defaultSeed: Seed = [0x9dc5, 0x811c].
Pair_defaultSeed == <<<<0, \H9dc5>>, <<0, \H811c>>>>

\* hashBoolean(bool, seed): one constant and one half of the seed for each
\* of the two booleans.
Pair_hashBoolean(bool, seed) ==
  IF bool.b
  THEN ShiftRightLogical[BitXor[<<\H4210, \H8421>>, seed[1]], 0]
  ELSE ShiftRightLogical[BitXor[<<\H4210, \H8420>>, seed[2]], 0]

\* hashNumber(num, seed): three sentinels, and for every other number
\* num | 0 mixed with seed[0] by subtractions, shifts and exclusive ors.
Pair_hashNumber(num, seed) ==
  IF num.cls = "NaN"
  THEN ShiftRightLogical[BitXor[<<\H4210, \H8425>>, seed[1]], 0]
  ELSE IF num.cls = "Infinity" /\ ~num.neg
  THEN ShiftRightLogical[BitXor[<<\H4210, \H8426>>, seed[1]], 0]
  ELSE IF num.cls = "Infinity"
  THEN ShiftRightLogical[BitXor[<<\H4210, \H8426>>, seed[2]], 0]
  ELSE
  Bind(BitXor[BitOr[ToIntegerOrZero(num), <<0, 0>>], seed[1]], LAMBDA h0 :
  Bind(Minus[h0, ShiftLeft[h0, 6]], LAMBDA h1 :
  Bind(BitXor[h1, ShiftRightLogical[h1, 17]], LAMBDA h2 :
  Bind(Minus[h2, ShiftLeft[h2, 9]], LAMBDA h3 :
  Bind(BitXor[h3, ShiftLeft[h3, 4]], LAMBDA h4 :
  Bind(Minus[h4, ShiftLeft[h4, 3]], LAMBDA h5 :
  Bind(BitXor[h5, ShiftLeft[h5, 10]], LAMBDA h6 :
  Bind(BitXor[h6, ShiftRightLogical[h6, 15]], LAMBDA h7 :
  ShiftRightLogical[h7, 0]))))))))

\* The five lines that multiply the state <<v0, v1>> of hashString by 403 +
\* 2^24: t0 = v0 * 403; t1 = v1 * 403; t1 += v0 << 8;
\* v1 = (t1 + (t0 >>> 16)) & 65535; v0 = t0 & 65535.
Pair_Multiply(v) ==
  LET t0 == v[1] * 403
      t1 == v[2] * 403 + v[1] * 256
  IN  <<t0 % 65536, (t1 + (t0 \div 65536)) % 65536>>

\* v0 ^= byte followed by the multiplication.
Pair_Mix(v, byte) == Pair_Multiply(<<Op16(Xor4, v[1], byte), v[2]>>)

\* The loop of hashString from the state <<v0, v1>>: one code unit below
\* 128 is one byte, below 2048 two bytes, a surrogate pair four bytes, and
\* every other code unit (a lone surrogate too) three bytes.
RECURSIVE Pair_hashStringLoop(_, _)
Pair_hashStringLoop(str, v) ==
  IF str = <<>> THEN v
  ELSE Bind(str[1], LAMBDA char :
    IF char < 128
    THEN Pair_hashStringLoop(Tail(str), Pair_Mix(v, char))
    ELSE IF char < 2048
    THEN Pair_hashStringLoop(Tail(str),
           Pair_Mix(Pair_Mix(v, Op16(Or4, char \div 64, 192)),
                    Op16(Or4, char % 64, 128)))
    ELSE IF /\ IsHighSurrogate(char)
            /\ Len(str) >= 2
            /\ IsLowSurrogate(str[2])
    THEN Bind(65536 + (char % 1024) * 1024 + (str[2] % 1024), LAMBDA cp :
         Pair_hashStringLoop(SubSeq(str, 3, Len(str)),
           Pair_Mix(Pair_Mix(Pair_Mix(Pair_Mix(v,
             Op16(Or4, cp \div 262144, 240)),
             Op16(Or4, (cp \div 4096) % 64, 128)),
             Op16(Or4, (cp \div 64) % 64, 128)),
             Op16(Or4, cp % 64, 128))))
    ELSE Pair_hashStringLoop(Tail(str),
           Pair_Mix(Pair_Mix(Pair_Mix(v,
             Op16(Or4, char \div 4096, 224)),
             Op16(Or4, (char \div 64) % 64, 128)),
             Op16(Or4, char % 64, 128))))

\* hashString(str, seed), for a seed whose halves are 16-bit numbers (as
\* defaultSeed and the seeds of getSeed are): v0 = seed[0] | 0,
\* v1 = seed[1] | 0, and the result ((v1 << 16) >>> 0) + v0.
Pair_hashString(str, seed) ==
  Bind(Pair_hashStringLoop(str.s, <<seed[1][2], seed[2][2]>>), LAMBDA v :
  <<v[2], v[1]>>)

\* hashSymbol(sym, seed).
Pair_hashSymbol(sym, seed) == Pair_hashString(Str(Symbol_toString(sym)), seed)

\* hashFunction(fun, seed).
Pair_hashFunction(fun, seed) == Pair_hashString(Str(Function_toString(fun)), seed)

\* a.localeCompare(b) < 0, for the keys of the modelled objects: strings of
\* lower-case ASCII letters, which every locale orders as their code units.
RECURSIVE localeCompareLess(_, _)
localeCompareLess(a, b) ==
  IF b = <<>> THEN FALSE
  ELSE IF a = <<>> THEN TRUE
  ELSE IF a[1] # b[1] THEN a[1] < b[1]
  ELSE localeCompareLess(Tail(a), Tail(b))

\* entries.sort((a, b) => a[0].localeCompare(b[0])): the entries of an
\* object by ascending key (the keys of one object are distinct).
Pair_sorted(entries) ==
  [i \in 1..Len(entries) |->
     entries[CHOOSE j \in 1..Len(entries) :
               Cardinality({k \in 1..Len(entries) :
                  localeCompareLess(entries[k][1].s, entries[j][1].s)}) = i - 1]]
    \o <<>>

RECURSIVE Pair_hash(_, _, _, _)
RECURSIVE Pair_hashObject(_, _, _, _)
RECURSIVE Pair_hashIterable(_, _, _, _, _)
RECURSIVE Pair_Fold(_, _, _, _, _, _)

\* The loop of hashIterable: hashed ^= hash(arr[i], seed) for every element.
\* An element of a Map or of the entries of an object is a fresh array
\* [key, value], which hash sends through hashObject to hashIterable.
Pair_Fold(hashed, arr, pairs, seed, mem, stack) ==
  IF arr = <<>> THEN hashed
  ELSE Bind(IF pairs
            THEN (IF stack = 0 THEN RangeError
                  ELSE Pair_hashIterable(arr[1], FALSE, seed, mem, stack - 1))
            ELSE Pair_hash(arr[1], seed, mem, stack), LAMBDA h :
       IF h = RangeError THEN RangeError
       ELSE Pair_Fold(BitXor[hashed, h], Tail(arr), pairs, seed, mem, stack))

\* hashIterable(itr, seed): seed[0] exclusive-ored with the hash of every
\* element, then >>> 0.  RangeError when the call stack runs out.
Pair_hashIterable(arr, pairs, seed, mem, stack) ==
  Bind(Pair_Fold(seed[1], arr, pairs, seed, mem, stack), LAMBDA hashed :
  IF hashed = RangeError THEN RangeError ELSE ShiftRightLogical[hashed, 0])

\* hashObject(obj, seed): null, then hashCode, then the iterator, then a
\* valueOf that returns something other than the object, then the entries
\* sorted by key.
Pair_hashObject(obj, seed, mem, stack) ==
  IF obj.k = "null" THEN BitXor[<<\H4210, \H8422>>, seed[2]]
  ELSE Bind(mem[obj.ref], LAMBDA target :
    IF target.hashCode.isFunction
    THEN ShiftRightLogical[ToIntegerOrZero(target.hashCode.returns), 0]
    ELSE IF target.shape \in {"Set", "Map", "Iterable"}
    THEN Pair_hashIterable(target.items, target.shape = "Map", seed, mem, stack)
    ELSE IF target.valueOf.overridden /\ target.valueOf.returns # obj
    THEN Pair_hash(target.valueOf.returns, seed, mem, stack)
    ELSE Pair_hashIterable(Pair_sorted(target.items), TRUE, seed, mem, stack))

\* hash(value, seed): the switch on typeof value.  A bigint has no case and
\* takes the default.
Pair_hash(value, seed, mem, stack) ==
  IF stack = 0 THEN RangeError
  ELSE IF typeof(value) = "undefined" THEN BitXor[<<\H4210, \H8423>>, seed[1]]
  ELSE IF typeof(value) = "boolean" THEN Pair_hashBoolean(value, seed)
  ELSE IF typeof(value) = "number" THEN Pair_hashNumber(value, seed)
  ELSE IF typeof(value) = "string" THEN Pair_hashString(value, seed)
  ELSE IF typeof(value) = "symbol" THEN Pair_hashSymbol(value, seed)
  ELSE IF typeof(value) = "function" THEN Pair_hashFunction(value, seed)
  ELSE IF typeof(value) = "object" THEN Pair_hashObject(value, seed, mem, stack - 1)
  ELSE BitXor[<<\H4210, \H8424>>, seed[2]]

(***************************************************************************)
(* The values and seeds the calls are made with                            *)
(***************************************************************************)

\* A heap object: its constructor, its hashCode and valueOf properties, what
\* kind of object it is and what it holds (the bytes of a buffer, the
\* elements an iterable has yet to yield, the [key, value] pairs of a Map or
\* of the own enumerable properties).  The iterator of a one-shot iterable
\* is the object itself: what was iterated is gone.  A view has the buffer
\* it looks into and the window it shows: byteLength bytes from byteOffset.
Object(name, shape, items) ==
  [ctor |-> [isFunction |-> TRUE, name |-> name],
   hashCode |-> [isFunction |-> FALSE, returns |-> Undefined],
   valueOf |-> [overridden |-> FALSE, returns |-> Undefined],
   shape |-> shape, items |-> items, oneShot |-> FALSE,
   buffer |-> 0, byteOffset |-> 0, byteLength |-> 0]

StrA == Str(<<97>>)
StrB == Str(<<98>>)

InitialHeap ==
  <<Object(<<65, 114, 114, 97, 121>>, "Iterable", <<IntNum(1), IntNum(2), IntNum(3)>>),
    Object(<<65, 114, 114, 97, 121>>, "Iterable", <<IntNum(3), IntNum(1), IntNum(2)>>),
    Object(<<83, 101, 116>>, "Set", <<IntNum(1), IntNum(2), IntNum(3)>>),
    Object(<<83, 101, 116>>, "Set", <<IntNum(3), IntNum(1), IntNum(2)>>),
    Object(<<77, 97, 112>>, "Map", <<<<StrA, IntNum(1)>>, <<StrB, IntNum(2)>>>>),
    Object(<<77, 97, 112>>, "Map", <<<<StrB, IntNum(2)>>, <<StrA, IntNum(1)>>>>),
    Object(<<79, 98, 106, 101, 99, 116>>, "Plain", <<<<StrA, IntNum(1)>>, <<StrB, IntNum(2)>>>>),
    Object(<<79, 98, 106, 101, 99, 116>>, "Plain", <<<<StrB, IntNum(2)>>, <<StrA, IntNum(1)>>>>),
    Object(<<65, 114, 114, 97, 121>>, "Iterable", <<IntNum(1), Ref(9)>>),
    [Object(<<80, 111, 105, 110, 116>>, "Plain", <<<<StrA, IntNum(1)>>>>)
       EXCEPT !.hashCode = [isFunction |-> TRUE, returns |-> IntNum(42)]],
    [Object(<<68, 97, 116, 101>>, "Plain", <<>>)
       EXCEPT !.valueOf = [overridden |-> TRUE, returns |-> IntNum(86400000)]],
    Object(<<65, 114, 114, 97, 121, 66, 117, 102, 102, 101, 114>>, "ArrayBuffer", <<1, 2, 3, 4, 5>>),
    [Object(<<85, 105, 110, 116, 56, 65, 114, 114, 97, 121>>, "View", <<>>)
       EXCEPT !.buffer = 12, !.byteLength = 5],
    Object(<<65, 114, 114, 97, 121>>, "Iterable", <<Ref(15), Ref(16)>>),
    Object(<<65, 114, 114, 97, 121>>, "Iterable", <<StrA, IntNum(1)>>),
    Object(<<65, 114, 114, 97, 121>>, "Iterable", <<StrB, IntNum(2)>>),
    [Object(<<>>, "Plain", <<<<StrA, IntNum(1)>>>>)
       EXCEPT !.ctor = [isFunction |-> FALSE, name |-> <<>>]],
    Object(<<83, 101, 116>>, "Set", <<Ref(19)>>),
    Object(<<77, 97, 112>>, "Map", <<<<StrA, Ref(18)>>>>),
    Object(<<79, 98, 106, 101, 99, 116>>, "Plain", <<<<StrA, Ref(20)>>>>),
    [Object(<<>>, "Iterable", <<IntNum(1), IntNum(2)>>)
       EXCEPT !.ctor = [isFunction |-> FALSE, name |-> <<>>], !.oneShot = TRUE],
    [Object(<<67, 117, 114, 115, 111, 114>>, "Iterable", <<IntNum(1), IntNum(2)>>)
       EXCEPT !.hashCode = [isFunction |-> TRUE, returns |-> IntNum(7)],
              !.valueOf = [overridden |-> TRUE, returns |-> IntNum(9)],
              !.oneShot = TRUE],
    [Object(<<82, 111, 119>>, "Iterable", <<IntNum(1), IntNum(2)>>)
       EXCEPT !.valueOf = [overridden |-> TRUE, returns |-> IntNum(9)]],
    [Object(<<>>, "Plain", <<<<StrA, IntNum(1)>>>>)
       EXCEPT !.ctor = [isFunction |-> FALSE, name |-> <<>>],
              !.hashCode = [isFunction |-> TRUE, returns |-> IntNum(42)]],
    Object(<<65, 114, 114, 97, 121, 66, 117, 102, 102, 101, 114>>, "ArrayBuffer",
           <<9, 1, 2, 3, 4, 5>>),
    [Object(<<85, 105, 110, 116, 56, 65, 114, 114, 97, 121>>, "View", <<>>)
       EXCEPT !.buffer = 25, !.byteOffset = 1, !.byteLength = 5],
    [Object(<<85, 105, 110, 116, 56, 65, 114, 114, 97, 121>>, "View", <<>>)
       EXCEPT !.buffer = 12, !.byteOffset = 1, !.byteLength = 2],
    [Object(<<79, 98, 106, 101, 99, 116>>, "Plain", <<>>)
       EXCEPT !.valueOf = [overridden |-> TRUE, returns |-> Ref(28)]],
    [Object(<<79, 98, 106, 101, 99, 116>>, "Plain", <<>>)
       EXCEPT !.valueOf = [overridden |-> TRUE, returns |-> Ref(1)]]>>

Numbers ==
  {IntNum(0), NegZero, IntNum(1), IntNum(42), IntNum(-1),
   Finite(FALSE, <<32767, 65535>>, 0),
   Finite(TRUE, <<32768, 0>>, 0),
   Finite(TRUE, <<32768, 1>>, 0),
   Finite(FALSE, <<65535, 65534>>, 0),
   Finite(FALSE, <<65535, 65535>>, 0),
   Finite(FALSE, <<65536, 0>>, 0),
   Finite(TRUE, <<65536, 0>>, 0),
   Finite(TRUE, <<65536, 42>>, 0),
   Finite(FALSE, <<1525878, 59392>>, 0),
   Finite(FALSE, <<0, 1>>, 1),
   Finite(TRUE, <<0, 3>>, 1),
   NaN, Infinity, NegInfinity}

Strings ==
  {Str(<<>>), StrA,
   Str(<<\H00F1>>), Str(<<\H006E, \H0303>>),
   Str(<<\H1EBF>>), Str(<<\H0065, \H0302, \H0301>>),
   Str(<<\H212B, \H0323>>), Str(<<\H0041, \H030A, \H0323>>),
   Str(<<\H0041, \H0323, \H030A>>),
   Str(<<\HD83D, \HDE00>>)}

Values ==
  {Undefined, Null, Bool(TRUE), Bool(FALSE)}
    \cup Numbers \cup Strings
    \cup {BigInt(FALSE, 0), BigInt(FALSE, 8), BigInt(TRUE, 1295)}
    \cup {Sym(<<105, 116>>), Sym(<<\H00F1>>)}
    \cup {Fun(<<40, 41, 32, 61, 62, 32, 118, 111, 105, 100, 32, 48>>)}
    \cup {Ref(id) : id \in DOMAIN InitialHeap}

\* 0, the seed of the tests, a negative seed and a seed above 2^32 - 1.
Seeds == {<<0, 0>>, <<\H9dc5, \H811c>>, <<-1, 65535>>, <<65536, 1>>}

(***************************************************************************)
(* The state machine: a caller holding one value and one seed calls the    *)
(* exported functions on them, in any order and any number of times.       *)
(***************************************************************************)

VARIABLES
  heap,   \* the objects of the caller
  value,  \* the value the caller hashes
  seed,   \* the seed parameter of the called function
  omitted, \* whether the caller leaves the seed argument out, so that the
          \* parameter takes its default value
  cur,    \* the latest call: the function, the elements it was given (when
          \* it takes an iterable), what it returned, the mixer, the
          \* operations hashObject performed on the caller's object
  prev,   \* an earlier call the caller kept the result of
  between \* whether a call was made after prev and before cur

vars == <<heap, value, seed, omitted, cur, prev, between>>

NoCall ==
  [fn |-> "none", arg |-> <<>>, ret |-> <<>>, mixer |-> "none", calls |-> <<>>]

\* The object behind the caller's value.
Target == heap[value.ref]

IsObject(shapes) == value.k = "object" /\ Target.shape \in shapes

\* The iterable put in the order of its hashes, as if sort() were called on
\* the iterable and not on the Uint32Array made from it.
IterableSortedInPlace(items, hashes) ==
  IF Threw(hashes) THEN items
  ELSE Bind(hashes, LAMBDA hs :
       [i \in 1..Len(items) |->
          items[CHOOSE j \in 1..Len(items) :
                  Cardinality({k \in 1..Len(items) :
                     Less(hs[k], hs[j]) \/ (hs[k] = hs[j] /\ k < j)}) = i - 1]]
         \o <<>>)

\* The iterable emptied, as if the elements were taken out of it (shift,
\* pop) while they were hashed.
IterableConsumed(items, hashes) == <<>>

\* What hashValues and hashEntries leave of the iterable they were given:
\* sort() is called on the Uint32Array made by Uint32Array.from, the
\* iterable itself is only read.
IterableAfterSort(items, hashes) == items

\* Whether hashObject reaches the iterator of the object.
Iterates(o) ==
  /\ ~o.hashCode.isFunction
  /\ ~o.valueOf.overridden
  /\ o.shape \in {"Set", "Map", "Iterable"}

\* The heap after Uint32Array.from iterated the caller's object to the end.
\* No object of the heap holds a one-shot iterable, so that the caller's own
\* object is the only one a call can exhaust.
AfterIteration(mem) ==
  IF mem[value.ref].oneShot THEN [mem EXCEPT ![value.ref].items = <<>>] ELSE mem

\* The mixer a call on the caller's value reaches through hashNumber.
MixerOf(v) == IF v.k = "number" THEN hashNumberRun(v, seed).mixer ELSE "none"

\* The operations the hashObject that hash delegates to performs on the
\* caller's value.
CallsOf(v) ==
  IF typeof(v) = "object"
  THEN hashObjectRun(v, seed, heap, MaxStack - 1).calls
  ELSE <<>>

\* A call returns (or throws): the caller keeps the result, and either
\* remembers the call before it or goes on remembering an earlier one.
Returns(fn, arg, ret, mixer, calls) ==
  /\ cur' = [fn |-> fn, arg |-> arg, ret |-> ret, mixer |-> mixer, calls |-> calls]
  /\ \/ prev' = cur /\ between' = FALSE
     \/ prev' = prev /\ between' = (prev # NoCall)
  /\ UNCHANGED <<value, seed, omitted>>

CallHash ==
  /\ Returns("hash", <<>>, hash(value, seed, heap, MaxStack), MixerOf(value),
             CallsOf(value))
  /\ heap' = IF value.k = "object" /\ Iterates(Target)
             THEN AfterIteration(heap) ELSE heap

CallHashBoolean ==
  /\ value.k = "boolean"
  /\ Returns("hashBoolean", <<>>, hashBoolean(value, seed), "none", <<>>)
  /\ UNCHANGED heap

CallHashNumber ==
  /\ value.k = "number"
  /\ Returns("hashNumber", <<>>, hashNumber(value, seed), MixerOf(value), <<>>)
  /\ UNCHANGED heap

CallHashString ==
  /\ value.k = "string"
  /\ Returns("hashString", <<>>, hashString(value, seed), "none", <<>>)
  /\ UNCHANGED heap

CallHashBigint ==
  /\ value.k = "bigint"
  /\ Returns("hashBigint", <<>>, hashBigint(value, seed), "none", <<>>)
  /\ UNCHANGED heap

CallHashSymbol ==
  /\ value.k = "symbol"
  /\ Returns("hashSymbol", <<>>, hashSymbol(value, seed), "none", <<>>)
  /\ UNCHANGED heap

CallHashFunction ==
  /\ value.k = "function"
  /\ Returns("hashFunction", <<>>, hashFunction(value, seed), "none", <<>>)
  /\ UNCHANGED heap

CallHashObject ==
  /\ value.k \in {"object", "null"}
  /\ \E run \in {hashObjectRun(value, seed, heap, MaxStack)} :
       Returns("hashObject", <<>>, run.ret, "none", run.calls)
  /\ heap' = IF value.k = "object" /\ Iterates(Target)
             THEN AfterIteration(heap) ELSE heap

CallHashSequence ==
  /\ IsObject({"Iterable", "Set"})
  /\ Returns("hashSequence", Target.items, hashSequence(Target.items, seed, heap, MaxStack), "none", <<>>)
  /\ heap' = AfterIteration(heap)

CallHashValues ==
  /\ IsObject({"Iterable", "Set"})
  /\ Returns("hashValues", Target.items, hashValues(Target.items, seed, heap, MaxStack), "none", <<>>)
  /\ LET hashes == Uint32Array_from(
       [i \in 1..Len(Target.items) |-> hash(Target.items[i], seed, heap, MaxStack - 1)])
     IN  heap' = AfterIteration(
                   [heap EXCEPT ![value.ref].items = IterableAfterSort(@, hashes)])

\* The entries an iterable of iterables yields: a Map yields its [key,
\* value] pairs, an array of arrays the elements of each inner array.
EntriesOf(o) ==
  IF o.shape = "Map" THEN o.items
  ELSE [i \in 1..Len(o.items) |-> heap[o.items[i].ref].items]

IsIterableOfIterables(o) ==
  \/ o.shape = "Map"
  \/ /\ o.shape = "Iterable"
     /\ \A i \in 1..Len(o.items) :
          /\ o.items[i].k = "object"
          /\ heap[o.items[i].ref].shape = "Iterable"

CallHashEntries ==
  /\ value.k = "object"
  /\ IsIterableOfIterables(Target)
  /\ Returns("hashEntries", EntriesOf(Target), hashEntries(EntriesOf(Target), seed, heap, MaxStack), "none", <<>>)
  /\ LET hashes == Uint32Array_from(
       [i \in 1..Len(EntriesOf(Target)) |-> hashSequence(EntriesOf(Target)[i], seed, heap, MaxStack - 1)])
     IN  heap' = AfterIteration(
                   [heap EXCEPT ![value.ref].items = IterableAfterSort(@, hashes)])

CallHashBytes ==
  /\ IsObject({"ArrayBuffer"})
  /\ Returns("hashBytes", <<>>, hashBytes(Target.items, seed), "none", <<>>)
  /\ UNCHANGED heap

CallGetSeed ==
  /\ value.k = "string"
  /\ Returns("getSeed", <<>>, getSeed(value), "none", <<>>)
  /\ UNCHANGED heap

Init ==
  /\ heap = InitialHeap
  /\ value \in Values
  /\ omitted \in BOOLEAN
  /\ seed \in (IF omitted THEN {DefaultSeed} ELSE Seeds)
  /\ cur = NoCall
  /\ prev = NoCall
  /\ between = FALSE

Next ==
  \/ CallHash
  \/ CallHashBoolean
  \/ CallHashNumber
  \/ CallHashString
  \/ CallHashBigint
  \/ CallHashSymbol
  \/ CallHashFunction
  \/ CallHashObject
  \/ CallHashSequence
  \/ CallHashValues
  \/ CallHashEntries
  \/ CallHashBytes
  \/ CallGetSeed

Spec == Init /\ [][Next]_vars

(***************************************************************************)
(* The caller of src/src/index.ts: one number, one seed, hashNumber        *)
(***************************************************************************)

\* Numbers on both sides of the sign bit, fractions and non-numbers.
Src_Numbers ==
  {IntNum(0), NegZero, IntNum(1), IntNum(2), IntNum(42), IntNum(-1), IntNum(-42),
   Finite(FALSE, <<\H4000, \H7FD7>>, 0),
   Finite(FALSE, <<\H4000, \H8000>>, 0),
   Finite(FALSE, <<\H4000, \H8001>>, 0),
   Finite(FALSE, <<32767, 65535>>, 0),
   Finite(FALSE, <<32768, 0>>, 0),
   Finite(FALSE, <<65535, 65534>>, 0),
   Finite(FALSE, <<65535, 65535>>, 0),
   Finite(FALSE, <<0, 1>>, 1),
   NaN}

Src_CallHashNumber ==
  /\ value.k = "number"
  /\ \E run \in {Src_hashNumberRun(value, seed)} :
       Returns("Src_hashNumber", <<>>, run.ret, run.mixer, <<>>)
  /\ UNCHANGED heap

Src_Init ==
  /\ heap = <<>>
  /\ value \in Src_Numbers
  /\ omitted \in BOOLEAN
  /\ seed \in (IF omitted THEN {DefaultSeed} ELSE Seeds)
  /\ cur = NoCall
  /\ prev = NoCall
  /\ between = FALSE

Src_Next == Src_CallHashNumber

Src_Spec == Src_Init /\ [][Src_Next]_vars

(***************************************************************************)
(* The caller of hashBytes: one ArrayBuffer, one seed                      *)
(***************************************************************************)

\* The longest buffer: three blocks.
MaxBytes == 12

\* Bytes with the top bit set and clear, zeros, the bytes of the constants.
SomeBytes ==
  <<\Hff, \H80, \H00, \H01, \H7f, \He6, \H54, \H6b, \H64, \Hc3, \H10, \H00, \H9d>>

\* The buffers: every prefix of SomeBytes and every run of zeros up to
\* MaxBytes bytes, and runs of 0xff.
ByteSeqs ==
  {SubSeq(SomeBytes, 1, n) : n \in 0..MaxBytes}
    \cup {[i \in 1..n |-> 0] : n \in 1..MaxBytes}
    \cup {[i \in 1..n |-> 255] : n \in {3, 4, 5, 8}}

Bytes_Init ==
  /\ \E d \in ByteSeqs :
       heap = <<Object(<<65, 114, 114, 97, 121, 66, 117, 102, 102, 101, 114>>,
                       "ArrayBuffer", d)>>
  /\ value = Ref(1)
  /\ omitted \in BOOLEAN
  /\ seed \in (IF omitted THEN {DefaultSeed} ELSE Seeds)
  /\ cur = NoCall
  /\ prev = NoCall
  /\ between = FALSE

Bytes_Next ==
  \/ CallHashBytes
  \/ CallHashObject
  \/ CallHash

Bytes_Spec == Bytes_Init /\ [][Bytes_Next]_vars

(***************************************************************************)
(* The caller of the seed-pair variant (part_000, lines 1-200): one value  *)
(* and one seed pair                                                       *)
(***************************************************************************)

\* The deepest the calls of hash may nest before the call stack runs out.
Pair_MaxStack == 6

\* The objects of the caller: arrays, a Set, a Map, plain objects with the
\* same properties in two orders, an object with hashCode, one whose
\* valueOf returns a number, an array that holds itself, the Set of the
\* tests and an object whose valueOf returns the object.
Pair_Heap ==
  <<Object(<<65, 114, 114, 97, 121>>, "Iterable", <<IntNum(1), IntNum(2), IntNum(3)>>),
    Object(<<65, 114, 114, 97, 121>>, "Iterable", <<IntNum(3), IntNum(1), IntNum(2)>>),
    Object(<<83, 101, 116>>, "Set", <<IntNum(1), IntNum(2), IntNum(3)>>),
    Object(<<77, 97, 112>>, "Map", <<<<StrA, IntNum(1)>>, <<StrB, IntNum(2)>>>>),
    Object(<<79, 98, 106, 101, 99, 116>>, "Plain", <<<<StrA, IntNum(1)>>, <<StrB, IntNum(2)>>>>),
    Object(<<79, 98, 106, 101, 99, 116>>, "Plain", <<<<StrB, IntNum(2)>>, <<StrA, IntNum(1)>>>>),
    [Object(<<80, 111, 105, 110, 116>>, "Plain", <<<<StrA, IntNum(1)>>>>)
       EXCEPT !.hashCode = [isFunction |-> TRUE, returns |-> IntNum(42)]],
    [Object(<<68, 97, 116, 101>>, "Plain", <<>>)
       EXCEPT !.valueOf = [overridden |-> TRUE, returns |-> IntNum(86400000)]],
    Object(<<65, 114, 114, 97, 121>>, "Iterable", <<IntNum(1), Ref(9)>>),
    Object(<<83, 101, 116>>, "Set", <<Null, Bool(TRUE), StrA>>),
    [Object(<<79, 98, 106, 101, 99, 116>>, "Plain", <<<<StrA, IntNum(1)>>>>)
       EXCEPT !.valueOf = [overridden |-> TRUE, returns |-> Ref(11)]]>>

Pair_Numbers ==
  {IntNum(0), NegZero, IntNum(1), IntNum(2), IntNum(3), IntNum(8), IntNum(42),
   IntNum(-1),
   Finite(FALSE, <<32767, 65535>>, 0),
   Finite(FALSE, <<65536, 1>>, 0),
   Finite(FALSE, <<0, 1>>, 1),
   NaN, Infinity, NegInfinity}

Pair_Values ==
  {Undefined, Null, Bool(TRUE), Bool(FALSE)}
    \cup Pair_Numbers \cup Strings
    \cup {BigInt(FALSE, 8)}
    \cup {Sym(<<105, 116>>)}
    \cup {Fun(<<40, 41, 32, 61, 62, 32, 118, 111, 105, 100, 32, 48>>)}
    \cup {Ref(id) : id \in DOMAIN Pair_Heap}

\* Seed pairs of 16-bit halves: zeros, the seed of the tests, pairs whose
\* halves differ in the lowest bit, and the largest halves.
Pair_Seeds ==
  {<<<<0, 0>>, <<0, 0>>>>,
   <<<<0, \H811c>>, <<0, \H9dc5>>>>,
   <<<<0, 1>>, <<0, 0>>>>,
   <<<<0, 0>>, <<0, 1>>>>,
   <<<<0, \Hffff>>, <<0, \Hfffe>>>>}

Pair_CallHashBoolean ==
  /\ value.k = "boolean"
  /\ Returns("Pair_hashBoolean", <<>>, Pair_hashBoolean(value, seed), "none", <<>>)
  /\ UNCHANGED heap

Pair_CallHashNumber ==
  /\ value.k = "number"
  /\ Returns("Pair_hashNumber", <<>>, Pair_hashNumber(value, seed), "none", <<>>)
  /\ UNCHANGED heap

Pair_CallHashString ==
  /\ value.k = "string"
  /\ Returns("Pair_hashString", <<>>, Pair_hashString(value, seed), "none", <<>>)
  /\ UNCHANGED heap

Pair_CallHashSymbol ==
  /\ value.k = "symbol"
  /\ Returns("Pair_hashSymbol", <<>>, Pair_hashSymbol(value, seed), "none", <<>>)
  /\ UNCHANGED heap

Pair_CallHashFunction ==
  /\ value.k = "function"
  /\ Returns("Pair_hashFunction", <<>>, Pair_hashFunction(value, seed), "none", <<>>)
  /\ UNCHANGED heap

Pair_CallHashIterable ==
  /\ IsObject({"Set", "Map", "Iterable"})
  /\ \E ret \in {Pair_hashIterable(Target.items, Target.shape = "Map", seed,
                                   heap, Pair_MaxStack)} :
       Returns("Pair_hashIterable", Target.items, ret, "none", <<>>)
  /\ UNCHANGED heap

Pair_CallHashObject ==
  /\ typeof(value) = "object"
  /\ \E ret \in {Pair_hashObject(value, seed, heap, Pair_MaxStack)} :
       Returns("Pair_hashObject", <<>>, ret, "none", <<>>)
  /\ UNCHANGED heap

Pair_CallHash ==
  /\ \E ret \in {Pair_hash(value, seed, heap, Pair_MaxStack)} :
       Returns("Pair_hash", <<>>, ret, "none", <<>>)
  /\ UNCHANGED heap

Pair_Init ==
  /\ heap = Pair_Heap
  /\ value \in Pair_Values
  /\ omitted \in BOOLEAN
  /\ seed \in (IF omitted THEN {Pair_defaultSeed} ELSE Pair_Seeds)
  /\ cur = NoCall
  /\ prev = NoCall
  /\ between = FALSE

Pair_Next ==
  \/ Pair_CallHashBoolean
  \/ Pair_CallHashNumber
  \/ Pair_CallHashString
  \/ Pair_CallHashSymbol
  \/ Pair_CallHashFunction
  \/ Pair_CallHashIterable
  \/ Pair_CallHashObject
  \/ Pair_CallHash

Pair_Spec == Pair_Init /\ [][Pair_Next]_vars

(***************************************************************************)
(* Properties                                                              *)
(***************************************************************************)

\* A call that returned, as opposed to one that threw.
Returned == cur.fn # "none" /\ cur.ret # RangeError

\* An unsigned 32-bit integer: both halves in 0..65535.
InUint32(x) == x[1] \in 0..65535 /\ x[2] \in 0..65535

\* The permutations of a sequence.
Perms(s) ==
  {[i \in 1..Len(s) |-> s[f[i]]] \o <<>> :
     f \in {g \in [1..Len(s) -> 1..Len(s)] :
              \A i, j \in 1..Len(s) : g[i] = g[j] => i = j}}

\* The heap with the items of the caller's object in another order.
Reordered(p) == [heap EXCEPT ![value.ref].items = p]

ChangedByReading == value.k = "object" /\ Target.oneShot

C2_Range == Returned => InUint32(cur.ret)

\* hashBoolean returned with a negative seed.
C2_Witness == cur.fn = "hashBoolean" /\ seed[1] < 0 /\ cur.ret # RangeError

\* C3: totality.  hash(v, s) returns without throwing for every value,
\* a value that contains itself included.
C3_Totality == cur.fn = "hash" => cur.ret # RangeError

\* a XOR b of two 16-bit halves, bit by bit from bit i up.
RECURSIVE XorBits(_, _, _)
XorBits(a, b, i) ==
  IF i = 16 THEN 0
  ELSE (IF BitAt(a, i) # BitAt(b, i) THEN 2 ^ i ELSE 0) + XorBits(a, b, i + 1)

\* key XOR s reduced to an unsigned 32-bit integer.
UnsignedXor(key, s) ==
  <<XorBits(key[1], s[1] % 65536, 0), XorBits(key[2], s[2], 0)>>

\* The four values that hash to a sentinel, and the sentinel of each.
Sentinels == {Bool(TRUE), Bool(FALSE), Null, Undefined}

KeyOf(v) ==
  IF v.k = "boolean" THEN (IF v.b THEN TRUE_KEY ELSE FALSE_KEY)
  ELSE IF v.k = "null" THEN NULL_KEY
  ELSE UNDEFINED_KEY

\* C4: for every seed s, hash of true, of false, of null and of undefined
\* each equals its own sentinel constant XOR s reduced to unsigned 32 bits,
\* and the four are pairwise distinct.
C4_Sentinels ==
  (cur.fn = "hash" /\ value.k \in {"boolean", "null", "undefined"}) =>
    /\ cur.ret = UnsignedXor(KeyOf(value), seed)
    /\ \A w \in Sentinels :
         w # value => hash(w, seed, heap, MaxStack) # cur.ret

\* hash(true, s) returned, with a seed above 2^32 - 1.
C4_Witness == cur.fn = "hash" /\ value = Bool(TRUE) /\ seed[1] > 65535

\* C5: signed-zero equivalence.  For every seed s, hashNumber(+0, s) and
\* hashNumber(-0, s) are the same number.
C5_SignedZero ==
  (cur.fn = "hashNumber" /\ IsZero(value)) =>
    /\ cur.ret = hashNumber(IntNum(0), seed)
    /\ cur.ret = hashNumber(NegZero, seed)

\* hashNumber(-0, s) returned.
C5_Witness == cur.fn = "hashNumber" /\ value = NegZero /\ cur.ret # RangeError

\* The sentinel constants an earlier hashNumber gave NaN, +Infinity and
\* -Infinity.
NAN_KEY == <<\H4210, \H8425>>
POSITIVE_INFINITY_KEY == <<\H4210, \H8426>>
NEGATIVE_INFINITY_KEY == <<\H4210, \H8427>>

NonFiniteKey(v) ==
  IF v.cls = "NaN" THEN NAN_KEY
  ELSE IF v.neg THEN NEGATIVE_INFINITY_KEY
  ELSE POSITIVE_INFINITY_KEY

\* C6, as claimed: hashNumber of NaN, of +Infinity and of -Infinity returns
\* its own sentinel constant XOR seed and goes through neither mixer.
C6_SentinelsOfNonFinite ==
  (cur.fn = "hashNumber" /\ value.cls # "finite") =>
    /\ cur.mixer = "none"
    /\ cur.ret = UnsignedXor(NonFiniteKey(value), seed)

\* C6, amended: hashNumber of NaN, of +Infinity and of -Infinity is murmur3
\* of the 8 bytes of the little-endian double, with the seed; none of the
\* three goes through wang.
C6_NonFiniteThroughMurmur3 ==
  (cur.fn = "hashNumber" /\ value.cls # "finite") =>
    /\ cur.mixer = "murmur3"
    /\ cur.ret = murmur3(setFloat64(value), seed)

\* hashNumber(-Infinity, s) returned.
C6_Witness == cur.fn = "hashNumber" /\ value = NegInfinity /\ cur.ret # RangeError

\* An integer within the 32-bit range, signed or unsigned: -2^31 <= value
\* and value <= 2^32 - 1.
InRange32(v) ==
  /\ Number_isInteger(v)
  /\ IF v.neg
     THEN v.m[1] < 32768 \/ v.m = <<32768, 0>>
     ELSE v.m[1] <= 65535

\* C7: every finite number that is not an integer within the 32-bit range
\* (a non-integer, an integer above the range, an integer below it) is
\* hashed by murmur3 over its 8-byte little-endian double, so that no
\* integer is reduced modulo 2^32 before mixing.
C7_OutOfRangeThroughMurmur3 ==
  (cur.fn = "hashNumber" /\ value.cls = "finite" /\ ~InRange32(value)) =>
    /\ cur.mixer = "murmur3"
    /\ cur.ret = murmur3(setFloat64(value), seed)

\* C8: Unicode normalization equivalence.  For every seed s and every two
\* strings a and b with NFD(a) = NFD(b), hashString(a, s) = hashString(b, s).
C8_Normalization ==
  cur.fn = "hashString" =>
    \A b \in Strings :
      NFD(b.s) = NFD(value.s) => hashString(b, seed) = cur.ret

\* hashString returned for U+00F1, which U+006E U+0303 is equivalent to.
C8_Witness ==
  /\ cur.fn = "hashString"
  /\ value = Str(<<\H00F1>>)
  /\ cur.ret # RangeError
  /\ \E b \in Strings : b # value /\ NFD(b.s) = NFD(value.s)

\* C9: key-order invariance.  For every seed, a plain object hashes the
\* same whatever the order its own enumerable properties were inserted in.
C9_KeyOrder ==
  (cur.fn \in {"hash", "hashObject"} /\ value.k = "object" /\ Target.shape = "Plain") =>
    \A p \in Perms(Target.items) :
      cur.ret = IF cur.fn = "hash"
                THEN hash(value, seed, Reordered(p), MaxStack)
                ELSE hashObject(value, seed, Reordered(p), MaxStack)

\* hash returned for the object {b: 2, a: 1}.
C9_Witness ==
  /\ cur.fn = "hash"
  /\ value = Ref(8)
  /\ cur.ret # RangeError
  /\ Cardinality(Perms(Target.items)) > 1

\* C10: order insensitivity of unordered collections.  For every seed and
\* every permutation p, hashValues(p(xs), s) = hashValues(xs, s) and
\* hashEntries(p(es), s) = hashEntries(es, s); the hash of a Set and the
\* hash of a Map do not depend on the insertion order.
C10_OrderInsensitive ==
  /\ cur.fn = "hashValues" =>
       \A p \in Perms(cur.arg) :
         hashValues(p, seed, heap, MaxStack) = cur.ret
  /\ cur.fn = "hashEntries" =>
       \A p \in Perms(cur.arg) :
         hashEntries(p, seed, heap, MaxStack) = cur.ret
  /\ (cur.fn = "hash" /\ value.k = "object" /\ Target.shape \in {"Set", "Map"}) =>
       \A p \in Perms(Target.items) :
         hash(value, seed, Reordered(p), MaxStack) = cur.ret

\* hashValues returned for the elements 3, 1, 2.
C10_Witness ==
  /\ cur.fn = "hashValues"
  /\ value = Ref(2)
  /\ cur.ret # RangeError
  /\ Cardinality(Perms(cur.arg)) = 6

\* The hashes of the elements in the order the iterable yielded them.
ElementHashes(elements) ==
  [i \in 1..Len(elements) |-> hash(elements[i], seed, heap, MaxStack - 1)] \o <<>>

\* C11: sequence order sensitivity.  hashSequence mixes the hashes of the
\* elements in iteration order, without reordering them, and with the
\* default seed hash([1, 2, 3]) differs from hash([3, 1, 2]).
C11_SequenceOrder ==
  /\ (cur.fn = "hashSequence" /\ Returned) =>
       cur.ret = murmur3(Uint32Buffer(ElementHashes(cur.arg)), seed)
  /\ (cur.fn = "hash" /\ omitted /\ value = Ref(1)) =>
       cur.ret # hash(Ref(2), seed, heap, MaxStack)
  /\ (cur.fn = "hash" /\ omitted /\ value = Ref(2)) =>
       cur.ret # hash(Ref(1), seed, heap, MaxStack)

\* hash returned for the array [3, 1, 2] with the seed left out.
C11_Witness ==
  /\ cur.fn = "hash"
  /\ omitted
  /\ value = Ref(2)
  /\ Returned
  /\ heap[1].items = <<IntNum(1), IntNum(2), IntNum(3)>>
  /\ Target.items = <<IntNum(3), IntNum(1), IntNum(2)>>

\* A call of hashObject on an object, directly or through hash.
OnObject(call) == call.fn \in {"hash", "hashObject"} /\ value.k = "object"

\* C12: capability priority in hashObject.  A hashCode method is honoured
\* first and an overridden valueOf second, both before the bytes, the
\* iterator and the enumeration of the keys: with a hashCode method the
\* call calls hashCode and nothing else, valueOf is not called and the
\* elements are not enumerated (the object is left as it was); with an
\* overridden valueOf and no hashCode it calls valueOf and nothing else.
C12_CapabilityPriority ==
  [][OnObject(cur') =>
       /\ Target.hashCode.isFunction =>
            cur'.calls = <<"hashCode">> /\ heap' = heap
       /\ (~Target.hashCode.isFunction /\ Target.valueOf.overridden) =>
            cur'.calls = <<"valueOf">> /\ heap' = heap
       /\ cur'.calls \in {<<"bytes">>, <<"buffer">>, <<"iterator">>, <<"entries">>} =>
            ~Target.hashCode.isFunction /\ ~Target.valueOf.overridden]_vars

\* hashObject returned for the one-shot iterable that has both a hashCode
\* method and an overridden valueOf, and its elements are still to come.
C12_Witness ==
  /\ cur.fn = "hashObject"
  /\ value = Ref(22)
  /\ Target.hashCode.isFunction /\ Target.valueOf.overridden
  /\ cur.calls = <<"hashCode">>
  /\ Target.oneShot /\ Target.items # <<>>

\* C13, as claimed: for an object o with a hashCode method, hashObject(o,
\* seed) returns hash(o.hashCode(), seed), with the seed the caller passed.
C13_HashCodeWithCallerSeed ==
  (OnObject(cur) /\ Target.hashCode.isFunction /\ Returned) =>
    cur.ret = hash(Target.hashCode.returns, seed, heap, MaxStack)

\* C13, amended: for an object o with a hashCode method, hashObject(o, seed)
\* returns hash(o.hashCode(), seed1), where seed1 is murmur3 of the UTF-8
\* bytes of o.constructor.name with the caller's seed when o.constructor is
\* a function, and the caller's seed otherwise.
C13_HashCodeWithFoldedSeed ==
  (OnObject(cur) /\ Target.hashCode.isFunction /\ Returned) =>
    cur.ret = hash(Target.hashCode.returns,
                   IF Target.ctor.isFunction
                   THEN murmur3(encode(Target.ctor.name), seed)
                   ELSE seed,
                   heap, MaxStack)

\* hashObject returned for the Point whose hashCode returns 42, and not
\* what hash(42, seed) returns.
C13_Witness ==
  /\ cur.fn = "hashObject"
  /\ value = Ref(10)
  /\ Target.hashCode.isFunction /\ Target.ctor.isFunction
  /\ Returned
  /\ cur.ret # hash(Target.hashCode.returns, seed, heap, MaxStack)

\* What hashObject is to return for the object o when every step after the
\* constructor test uses the seed s1.
WithSeed(o, s1) ==
  IF o.hashCode.isFunction THEN hash(o.hashCode.returns, s1, heap, MaxStack)
  ELSE IF o.valueOf.overridden THEN hash(o.valueOf.returns, s1, heap, MaxStack)
  ELSE CASE o.shape = "ArrayBuffer" -> hashBytes(o.items, s1)
         [] o.shape = "View" -> hashBytes(heap[o.buffer].items, s1)
         [] o.shape = "Set" -> hashValues(o.items, s1, heap, MaxStack)
         [] o.shape = "Map" -> hashEntries(o.items, s1, heap, MaxStack)
         [] o.shape = "Iterable" -> hashSequence(o.items, s1, heap, MaxStack)
         [] o.shape = "Plain" -> hashEntries(o.items, s1, heap, MaxStack)

\* C14: type-name folding.  For an object whose constructor is a function,
\* hashObject replaces the seed by murmur3(UTF-8(constructor.name), seed)
\* and uses the folded seed for every later step (hashCode, valueOf, bytes,
\* elements, entries), e.g. hashObject(arr, s) = hashSequence(arr,
\* murmur3(UTF-8("Array"), s)); an object without a function-valued
\* constructor is hashed with the seed unchanged.
C14_TypeNameFolding ==
  [][(OnObject(cur') /\ cur'.ret # RangeError) =>
       cur'.ret = WithSeed(Target, IF Target.ctor.isFunction
                                   THEN murmur3(encode(Target.ctor.name), seed)
                                   ELSE seed)]_vars

\* hashObject returned for the array [1, 2, 3]: what hashSequence returns
\* for it with the seed murmur3("Array", seed), and not what hashSequence
\* returns with the caller's seed.
C14_Witness ==
  /\ cur.fn = "hashObject"
  /\ value = Ref(1)
  /\ Target.ctor.isFunction /\ Target.ctor.name = <<65, 114, 114, 97, 121>>
  /\ Returned
  /\ cur.ret = hashSequence(Target.items, murmur3(encode(Target.ctor.name), seed),
                            heap, MaxStack)
  /\ cur.ret # hashSequence(Target.items, seed, heap, MaxStack)

\* The categories of values that are not composite.
NonComposite ==
  {"boolean", "undefined", "null", "number", "bigint", "string", "symbol",
   "function"}

\* Seeds in [0, 2^32) the seed of a call is compared with: the ends of the
\* range, single bits, the constants wang mixes in, the seed of the tests.
OtherSeeds ==
  {<<0, 0>>, <<0, 1>>, <<0, 61>>, <<1, 0>>, <<32768, 0>>, <<65535, 65535>>,
   <<\H9dc5, \H811c>>, <<\H811c, \H9dc5>>}

\* C15: seed sensitivity.  For every value v of a non-composite category
\* and every two seeds s1 # s2 in [0, 2^32), hash(v, s1) # hash(v, s2).
C15_SeedSensitivity ==
  (cur.fn = "hash" /\ value.k \in NonComposite /\ InUint32(seed)) =>
    \A s2 \in OtherSeeds \ {seed} :
      hash(value, s2, heap, MaxStack) # cur.ret

\* hash returned for the number 42 with the seed of the tests, which is
\* compared with the results for seven other seeds.
C15_Witness ==
  /\ cur.fn = "hash"
  /\ value = IntNum(42)
  /\ seed = <<\H9dc5, \H811c>>
  /\ Returned
  /\ Cardinality(OtherSeeds \ {seed}) = 7

\* C16: getSeed(label) equals hashString(label, default seed) for every
\* string label: it is what hashString returns for the label with the
\* default seed, and what a call of hashString with the seed left out
\* returned; getSeed('') returns 0.
C16_GetSeed ==
  cur.fn = "getSeed" =>
    /\ cur.ret = hashString(value, DefaultSeed)
    /\ (prev.fn = "hashString" /\ omitted) => cur.ret = prev.ret
    /\ value = Str(<<>>) => cur.ret = <<0, 0>>

\* getSeed returned for a string that is not empty, after hashString was
\* called on it with the seed left out.
C16_Witness ==
  /\ cur.fn = "getSeed"
  /\ prev.fn = "hashString"
  /\ omitted
  /\ value = Str(<<\H1EBF>>)
  /\ Returned

\* A call of a function that has a seed parameter.
SeededCall == cur.fn \notin {"none", "getSeed"}

\* C17, as claimed: the default seed, used by every hash function when the
\* seed argument is omitted, is a fixed non-zero constant.
C17_DefaultSeedNonZero ==
  (SeededCall /\ omitted) => ToUint32[seed] # <<0, 0>>

\* C17, amended: the default seed, used by every hash function when the
\* seed argument is omitted, is the fixed constant 0: a boolean then hashes
\* to its key, undefined and null to theirs.
C17_DefaultSeedZero ==
  (SeededCall /\ omitted) =>
    /\ seed = <<0, 0>>
    /\ value.k = "boolean" => cur.ret = (IF value.b THEN TRUE_KEY ELSE FALSE_KEY)
    /\ value.k = "undefined" => cur.ret = UNDEFINED_KEY
    /\ value.k = "null" => cur.ret = NULL_KEY

\* hashBoolean returned for true with the seed left out.
C17_Witness ==
  /\ cur.fn = "hashBoolean"
  /\ omitted
  /\ value = Bool(TRUE)
  /\ cur.ret = TRUE_KEY

\* The per-kind function of the typeof category of v, called with seed s.
PerKind(v, s) ==
  CASE typeof(v) = "undefined" -> UnsignedXor(UNDEFINED_KEY, s)
    [] typeof(v) = "boolean" -> hashBoolean(v, s)
    [] typeof(v) = "number" -> hashNumber(v, s)
    [] typeof(v) = "string" -> hashString(v, s)
    [] typeof(v) = "symbol" -> hashSymbol(v, s)
    [] typeof(v) = "function" -> hashFunction(v, s)
    [] typeof(v) = "object" -> hashObject(v, s, heap, MaxStack)
    [] typeof(v) = "bigint" -> hashBigint(v, s)

\* A value of a category that is none of the eight typeof knows.  No value
\* of the language is one: the caller never holds it.
Foreign == [k |-> "unknown"]

\* C18: the dispatcher is a pure router.  For every value v and seed s,
\* hash(v, s) is what the per-kind function of v's typeof category returns
\* when called with the same seed s; the arm for a category that matches no
\* case returns the unknown-kind sentinel 0x42108424 XOR s, a number and
\* not an error.
C18_PureRouter ==
  [][cur'.fn = "hash" =>
       /\ cur'.ret = PerKind(value, seed)
       /\ hash(Foreign, seed, heap, MaxStack) = UnsignedXor(UNKNOWN_KEY, seed)]_vars

\* hash returned for a string with a seed that is not the default one.
C18_Witness ==
  /\ cur.fn = "hash"
  /\ value = Str(<<\H00F1>>)
  /\ seed = <<\H9dc5, \H811c>>
  /\ Returned
  /\ cur.ret # hashString(value, DefaultSeed)

\* C19: the documented test vector.  With the default seed, hash(42)
\* returns 1462734105 = 22319 * 2^16 + 36121.
C19_TestVector ==
  (cur.fn = "hash" /\ omitted /\ value = IntNum(42)) =>
    cur.ret = <<22319, 36121>>

\* hash returned for 42 with the seed left out, through wang.
C19_Witness ==
  /\ cur.fn = "hash"
  /\ omitted
  /\ value = IntNum(42)
  /\ cur.mixer = "wang"
  /\ Returned

\* The steps of wang undone, last to first: x ^ (x >>> 15) by XORing the
\* shifts by 15 and 30, the multiplication by 0x27d4eb2d by its inverse
\* modulo 2^32 (0xfb699ca5), x ^ (x >>> 4) by XORing the shifts by 4, 8, ...,
\* 28, x + (x << 3) = 9x by the inverse of 9 (0x38e38e39), x ^ 61 ^
\* (x >>> 16) by XORing 61 and the shift by 16, and x ^ seed by the seed.
Unmix(h, s) ==
  Bind(BitXor[BitXor[h, ShiftRightLogical[h, 15]], ShiftRightLogical[h, 30]],
       LAMBDA i5 :
  Bind(Math_imul[i5, <<\Hfb69, \H9ca5>>], LAMBDA i4 :
  Bind(BitXor[BitXor[BitXor[i4, ShiftRightLogical[i4, 4]],
                     BitXor[ShiftRightLogical[i4, 8], ShiftRightLogical[i4, 12]]],
              BitXor[BitXor[ShiftRightLogical[i4, 16], ShiftRightLogical[i4, 20]],
                     BitXor[ShiftRightLogical[i4, 24], ShiftRightLogical[i4, 28]]]],
       LAMBDA i3 :
  Bind(Math_imul[i3, <<\H38e3, \H8e39>>], LAMBDA i2 :
  Bind(BitXor[i2, Num(61)], LAMBDA z :
  Bind(BitXor[z, ShiftRightLogical[z, 16]], LAMBDA i1 :
  ShiftRightLogical[BitXor[i1, s], 0]))))))

\* 32-bit words the input of a call is compared with: small ones, the
\* neighbours of 42, single bits, words that differ in the top bit only,
\* the ends of the range.
Words32 ==
  {<<0, 0>>, <<0, 1>>, <<0, 2>>, <<0, 41>>, <<0, 42>>, <<0, 43>>, <<0, 61>>,
   <<0, 32768>>, <<1, 0>>, <<1, 1>>, <<32767, 65535>>, <<32768, 0>>,
   <<32768, 1>>, <<32768, 42>>, <<65535, 0>>, <<65535, 65534>>,
   <<65535, 65535>>}

\* The 32-bit word hashNumber hands to wang for the caller's number.
WordOf(v) == ToUint32[ToIntegerOrZero(v)]

\* C20: wang is a bijection on 32-bit words for every fixed seed.  The word
\* a call mixed is recovered from the result by undoing the steps of wang,
\* and no other word gives the same result.
C20_WangBijection ==
  (cur.fn \in {"hash", "hashNumber"} /\ cur.mixer = "wang") =>
    /\ Unmix(cur.ret, seed) = WordOf(value)
    /\ \A w \in Words32 \ {WordOf(value)} : wang(w, seed) # cur.ret

\* hashNumber returned for 42 through wang with the seed of the tests; 42 is
\* compared with sixteen other words.
C20_Witness ==
  /\ cur.fn = "hashNumber"
  /\ cur.mixer = "wang"
  /\ value = IntNum(42)
  /\ seed = <<\H9dc5, \H811c>>
  /\ Cardinality(Words32 \ {WordOf(value)}) = 16

\* The 6-shift mixer with a logical right shift at every step.
SixShiftLogical(input, s) ==
  Bind(BitXor[input, s], LAMBDA i1 :
  Bind(Plus[i1, BitNot[ShiftLeft[i1, 15]]], LAMBDA i2 :
  Bind(BitXor[i2, ShiftRightLogical[i2, 10]], LAMBDA i3 :
  Bind(Plus[i3, ShiftLeft[i3, 3]], LAMBDA i4 :
  Bind(BitXor[i4, ShiftRightLogical[i4, 6]], LAMBDA i5 :
  Bind(Plus[i5, BitNot[ShiftLeft[i5, 11]]], LAMBDA i6 :
  Bind(BitXor[i6, ShiftRightLogical[i6, 16]], LAMBDA i7 :
  ShiftRightLogical[i7, 0])))))))

\* The 32-bit words of the numbers the caller of src/src/index.ts holds.
Src_Words32 == {WordOf(v) : v \in {n \in Src_Numbers : n.cls = "finite"}}

\* C21: the integer mixer wang of src/src/index.ts uses a logical right
\* shift at every step, and is injective on 32-bit inputs for every fixed
\* seed: no other word gives the result of the word a call mixed.
C21_SixShiftInjective ==
  (cur.fn = "Src_hashNumber" /\ cur.mixer = "wang") =>
    /\ cur.ret = SixShiftLogical(WordOf(value), seed)
    /\ \A w \in Src_Words32 \ {WordOf(value)} : Src_wang(w, seed) # cur.ret

\* MurmurHash3 x86_32 as its reference implementation computes it, every
\* intermediate value an unsigned 32-bit word.
Rotl32(x, r) == ToUint32[BitOr[ShiftLeft[x, r], ShiftRightLogical[x, 32 - r]]]
Mul32(a, b) == ToUint32[Math_imul[a, b]]
Add32(a, b) == ToUint32[Plus[a, b]]

Ref_Scramble(k) ==
  Bind(Mul32(k, <<\Hcc9e, \H2d51>>), LAMBDA k1 :
  Bind(Rotl32(k1, 15), LAMBDA k2 :
  Mul32(k2, <<\H1b87, \H3593>>)))

RECURSIVE Ref_Blocks(_, _)
Ref_Blocks(data, h) ==
  IF Len(data) < 4 THEN h
  ELSE Bind(<<data[4] * 256 + data[3], data[2] * 256 + data[1]>>, LAMBDA k :
       Bind(ToUint32[BitXor[h, Ref_Scramble(k)]], LAMBDA h1 :
       Bind(Rotl32(h1, 13), LAMBDA h2 :
       Bind(Add32(Mul32(h2, <<0, 5>>), <<\He654, \H6b64>>), LAMBDA h3 :
       Ref_Blocks(SubSeq(data, 5, Len(data)), h3)))))

Ref_Tail(tail, h) ==
  IF tail = <<>> THEN h
  ELSE Bind(<<IF Len(tail) = 3 THEN tail[3] ELSE 0,
              (IF Len(tail) >= 2 THEN tail[2] * 256 ELSE 0) + tail[1]>>, LAMBDA k :
       ToUint32[BitXor[h, Ref_Scramble(k)]])

Ref_Fmix32(h) ==
  Bind(ToUint32[BitXor[h, ShiftRightLogical[h, 16]]], LAMBDA h1 :
  Bind(Mul32(h1, <<\H85eb, \Hca6b>>), LAMBDA h2 :
  Bind(ToUint32[BitXor[h2, ShiftRightLogical[h2, 13]]], LAMBDA h3 :
  Bind(Mul32(h3, <<\Hc2b2, \Hae35>>), LAMBDA h4 :
  ToUint32[BitXor[h4, ShiftRightLogical[h4, 16]]]))))

MurmurHash3_x86_32(data, s) ==
  Bind(Len(data) - (Len(data) % 4), LAMBDA blocks :
  Bind(Ref_Blocks(SubSeq(data, 1, blocks), s), LAMBDA h1 :
  Bind(Ref_Tail(SubSeq(data, blocks + 1, Len(data)), h1), LAMBDA h2 :
  Ref_Fmix32(ToUint32[BitXor[h2, Num(Len(data))]]))))

\* C22: murmur3(data, seed) equals the reference MurmurHash3 x86_32 digest
\* for every byte sequence and every 32-bit seed; the addition of
\* 0xe6546b64 that the loop does not truncate to 32 bits never changes the
\* result.
C22_Murmur3IsReference ==
  (cur.fn = "hashBytes" /\ InUint32(seed)) =>
    cur.ret = MurmurHash3_x86_32(Target.items, seed)

\* hashBytes returned for a buffer of two blocks or more whose first turn
\* of the loop left h1 outside the unsigned 32-bit range.
C22_Witness ==
  /\ cur.fn = "hashBytes"
  /\ InUint32(seed)
  /\ Len(Target.items) >= 9
  /\ ~InUint32(Murmur3Body(Target.items, 0, 4, seed))
  /\ Returned

\* C27: length sensitivity of murmur3.  For every seed and every byte
\* sequence d whose length is not congruent to 3 modulo 4, murmur3 of d
\* followed by one 0x00 byte differs from murmur3 of d: trailing zero bytes
\* are not ignored.
C27_LengthSensitivity ==
  (cur.fn = "hashBytes" /\ Len(Target.items) % 4 # 3) =>
    murmur3(Append(Target.items, 0), seed) # cur.ret

\* hashBytes returned for a buffer of a block and two more bytes that ends
\* in a zero byte already.
C27_Witness ==
  /\ cur.fn = "hashBytes"
  /\ Len(Target.items) = 6
  /\ Target.items[6] = 0
  /\ Returned

\* x.toString() of a symbol or a function, as a string value.
TextOf(v) ==
  Str(IF v.k = "symbol" THEN Symbol_toString(v) ELSE Function_toString(v))

\* C23: symbols and functions are hashed through the textual path.  For
\* every symbol or function x and seed s, hashSymbol(x, s) and
\* hashFunction(x, s) equal hashString(x.toString(), s), including when the
\* text contains precomposed characters.
C23_TextualPath ==
  cur.fn \in {"hashSymbol", "hashFunction"} =>
    cur.ret = hashString(TextOf(value), seed)

\* The numbers hashNumber routes to the integer mixer.
RoutedToWang == {n \in Numbers : hashNumberRun(n, seed).mixer = "wang"}

\* a # b as numbers: +0 and -0 are the same number.
Distinct(a, b) == a # b /\ ~(IsZero(a) /\ IsZero(b))

\* C24: for every seed s and every two distinct integers a # b that
\* hashNumber routes to the integer mixer (negative integers of any
\* magnitude and positive integers up to 2^32 - 2), hashNumber(a, s) #
\* hashNumber(b, s).
C24_IntegersDoNotCollide ==
  (cur.fn = "hashNumber" /\ cur.mixer = "wang") =>
    \A b \in RoutedToWang : Distinct(value, b) => hashNumber(b, seed) # cur.ret

\* The bytes a view shows: byteLength bytes of its buffer from byteOffset.
Visible(o) == SubSeq(heap[o.buffer].items, o.byteOffset + 1, o.byteOffset + o.byteLength)

\* The views of the type of o that show the bytes o shows.
SameWindow(o) ==
  {id \in DOMAIN heap :
     /\ heap[id].shape = "View"
     /\ heap[id].ctor = o.ctor
     /\ Visible(heap[id]) = Visible(o)}

\* C25: the hash of a typed array or DataView depends only on the bytes
\* inside the window of the view: two views of the same type with equal
\* visible bytes hash equal, whatever their offset and whatever the buffer
\* holds outside the window.
C25_ViewWindow ==
  (cur.fn = "hash" /\ IsObject({"View"})) =>
    \A id \in SameWindow(Target) : hash(Ref(id), seed, heap, MaxStack) = cur.ret

\* C26: hashObject on an object with an overridden valueOf calls valueOf
\* once and terminates with a result, also when valueOf returns the object
\* itself or another object.
C26_ValueOfTerminates ==
  (OnObject(cur) /\ ~Target.hashCode.isFunction /\ Target.valueOf.overridden) =>
    cur.calls = <<"valueOf">> /\ cur.ret # RangeError

\* The functions that take an iterable or a buffer.
TakesCollection == {"hashSequence", "hashValues", "hashEntries", "hashBytes"}

C29_BooleansNeverCollide ==
  (cur.fn = "Pair_hashBoolean") =>
    Pair_hashBoolean(Bool(~value.b), seed) # cur.ret

\* C30: in the seed-pair variant the result of hashIterable depends on the
\* order of the elements: with the default seed hashIterable([1, 2, 3]) #
\* hashIterable([3, 1, 2]).
C30_IterableOrder ==
  (cur.fn = "Pair_hashIterable" /\ omitted /\ value = Ref(1)) =>
    Pair_hashIterable(<<IntNum(3), IntNum(1), IntNum(2)>>, FALSE, seed,
                      heap, Pair_MaxStack) # cur.ret

====
